---- MODULE Spec2Model ----
(***************************************************************************)
(* Verification model of the dependency-aware build scheduler:             *)
(*   - PackageDepGraph.topo_sort            (debian_dep_sort.py)           *)
(*   - process_queue_entries / insert_missing_dependencies                 *)
(*                                          (debuild_runner.py)            *)
(*   - run_with_lock_retries / _handle_lock_and_recover                    *)
(*                                          (debuild_runner.py,            *)
(*                                           deb_install_any.py)           *)
(*   - MenuState queue store                (agiros_tools_menu.py)         *)
(* Each component has its own specification over the shared variables; the *)
(* variables of the other components keep their initial values.            *)
(***************************************************************************)
EXTENDS Integers, Sequences, FiniteSets, TLC

VARIABLES
    \* ---- PackageDepGraph / topo_sort ----
    adj,                  \* edges <<prereq, dependent>> (adj and rev views)
    order_hint,           \* partial map package -> priority
    subset,               \* requested packages
    subset_none,          \* TRUE when topo_sort is called with subset=None
    include_dependencies, \* argument of the call
    topo,                 \* outcome of the call
    series_out,           \* outcome of compute_series_toposort
    control_files,        \* package -> stanzas of its debian/control
    unresolved,           \* package -> dependencies that are not known
    gpc                   \* "new", then "built" (graph), then "sorted"

graphVars == <<control_files, unresolved, gpc>>

topoVars == <<adj, order_hint, subset, subset_none, include_dependencies, topo,
              series_out, graphVars>>

VARIABLES
    \* ---- debuild_runner.process_queue_entries ----
    entries,              \* List[QueueEntry]
    idx,                  \* loop index (1-based here)
    built_successfully,   \* List[str]
    completed_names,      \* Set[str]
    rpc,                  \* "loop" while the while-loop runs, then "done"
    srcDirs,              \* names whose directory under base_dir has debian/
    install_artifacts,    \* args.install_artifacts
    hist,                 \* the last loop iterations (history)
    awaiting              \* per failing task: inserted entries not yet taken up

runnerVars == <<entries, idx, built_successfully, completed_names, rpc,
                srcDirs, install_artifacts, hist, awaiting>>

VARIABLES
    \* ---- run_with_lock_retries ----
    AUTO_KILL_LOCK_HOLDERS,  \* module settings read from the environment
    APT_WAIT_FOR_LOCK,
    APT_LOCK_WAIT_TIMEOUT,
    check,                \* argument of the call
    effective_max,        \* max_retries, or APT_MAX_RETRIES when None
    attempts,             \* retry credits used
    lpc,                  \* "run": at line 406; "handle": at line 420; "done"
    proc,                 \* the latest result of the command
    outcome,              \* how the call ended
    executions,           \* times the command was run (saturating)
    signalled,            \* pids that were sent a signal
    repair_commands       \* repair commands run by the recoveries

lockVars == <<AUTO_KILL_LOCK_HOLDERS, APT_WAIT_FOR_LOCK, APT_LOCK_WAIT_TIMEOUT,
              check, effective_max, attempts, lpc, proc, outcome, executions,
              signalled, repair_commands>>

VARIABLES
    \* ---- agiros_tools_menu.MenuState ----
    build_queue,          \* List[BuildTask]
    queue_packages,       \* List[str]
    package_status,       \* Dict[str, bool]
    queue_file,           \* the lines of the queue file
    queue_meta_file,      \* the JSON object of the metadata file
    last_op               \* the latest queue operation and what it returned

storeVars == <<build_queue, queue_packages, package_status, queue_file,
               queue_meta_file, last_op>>

VARIABLES
    \* ---- the menu at work on the queue: file writes and the execution loop
    writer,               \* the next step of the file writes of a save
    target,               \* the queue being written
    pre_disk,             \* the two files as they were when the save began
    observed,             \* what an external reader read last
    run                   \* the execution loop of manage_build_queue

menuVars == <<writer, target, pre_disk, observed, run>>

vars == <<topoVars, runnerVars, lockVars, storeVars, menuVars>>

\* What each component leaves alone.
outsideTopo == <<runnerVars, lockVars, storeVars, menuVars>>
outsideRunner == <<topoVars, lockVars, storeVars, menuVars>>
outsideLock == <<topoVars, runnerVars, storeVars, menuVars>>
outsideStore == <<topoVars, runnerVars, lockVars, menuVars>>
outsideMenu == <<topoVars, runnerVars, lockVars>>

(***************************************************************************)
(* Generic helpers                                                         *)
(***************************************************************************)
Range(s) == {s[i] : i \in 1..Len(s)}

NoDup(s) == \A i, j \in 1..Len(s) : s[i] = s[j] => i = j

IndexOf(s, x) == CHOOSE i \in 1..Len(s) : s[i] = x

Min(S) == CHOOSE x \in S : \A y \in S : x <= y

(***************************************************************************)
(* Dependency graph                                                        *)
(***************************************************************************)
\* Known packages (keys of package_dirs) and one name that is not known.
\* Dependencies are drawn among the packages of Drawn; e, f and g have
\* dependencies in the graph of seven packages only (ExampleEdges).
Nodes == {"a", "b", "c", "d", "e", "f", "g"}
Drawn == {"a", "b", "c", "d"}
Unknown == "u"

\* Python compares the heap tuples (priority, name); names compare as strings.
NameRank(n) ==
    CASE n = "a" -> 1 [] n = "b" -> 2 [] n = "c" -> 3 [] n = "d" -> 4
      [] n = "e" -> 5 [] n = "f" -> 6 [] n = "g" -> 7 [] OTHER -> 8

\* Bounds of the graph inputs.
MaxEdges == 3
MaxSubset == 2

\* add_edge: self edges are dropped, so no edge <<n, n>> is ever stored.
EdgeUniverse == {e \in Drawn \X Drawn : e[1] # e[2]}

\* rev[n]: prerequisites of n;  adj[n]: followers of n.
RevOf(E, n) == {e[1] : e \in {x \in E : x[2] = n}}
AdjOf(E, n) == {e[2] : e \in {x \in E : x[1] = n}}

\* A set taken as a list in ascending name order (one of the iteration
\* orders a Python set can have; the results below do not depend on it).
RECURSIVE SetToSeq(_)
SetToSeq(S) ==
    IF S = {} THEN <<>>
    ELSE LET x == CHOOSE y \in S : \A z \in S : NameRank(y) <= NameRank(z)
         IN <<x>> \o SetToSeq(S \ {x})

\* topo_sort lines 60-71: the stack walk over rev; "KeyError" for an unknown
\* package.  Returns [err, nodes].
RECURSIVE ClosureWalk(_, _, _)
ClosureWalk(E, stack, working) ==
    IF stack = <<>> THEN [err |-> FALSE, nodes |-> working]
    ELSE LET node == stack[Len(stack)]
             rest == SubSeq(stack, 1, Len(stack) - 1)
         IN IF node \in working THEN ClosureWalk(E, rest, working)
            ELSE IF node \notin Nodes THEN [err |-> TRUE, nodes |-> working]
            ELSE ClosureWalk(E,
                             rest \o SetToSeq(RevOf(E, node) \ (working \cup {node})),
                             working \cup {node})

\* The variant without the walk over rev: only the requested packages.
WorkingNodesNoDeps(E, sub, none) ==
    IF none THEN [err |-> FALSE, nodes |-> Nodes]
    ELSE [err |-> sub \ Nodes # {}, nodes |-> sub \cap Nodes]

\* topo_sort lines 57-71.
WorkingNodes(E, sub, none) ==
    IF none THEN [err |-> FALSE, nodes |-> Nodes]
    ELSE ClosureWalk(E, SetToSeq(sub), {})

\* lines 72-76.
InDegree(E, working) ==
    [n \in working |-> Cardinality(RevOf(E, n) \cap working)]

\* lines 77, 81, 92.
DefaultPriority(hint, working) ==
    Cardinality(DOMAIN hint) + Cardinality(working) + 5

Priority(hint, working, n) ==
    IF n \in DOMAIN hint THEN hint[n] ELSE DefaultPriority(hint, working)

\* heapq.heappop on tuples (priority, node).
HeapMin(heap) ==
    CHOOSE x \in heap : \A y \in heap :
        \/ x[1] < y[1]
        \/ (x[1] = y[1] /\ NameRank(x[2]) <= NameRank(y[2]))

\* lines 84-93: Kahn's loop.
RECURSIVE KahnLoop(_, _, _, _, _, _)
KahnLoop(E, working, hint, indeg, heap, sorted) ==
    IF heap = {} THEN sorted
    ELSE LET top == HeapMin(heap)
             node == top[2]
             followers == AdjOf(E, node) \cap working
             indeg2 == [n \in working |->
                          IF n \in followers THEN indeg[n] - 1 ELSE indeg[n]]
             ready == {f \in followers : indeg2[f] = 0}
             heap2 == (heap \ {top}) \cup
                      {<<Priority(hint, working, f), f>> : f \in ready}
         IN KahnLoop(E, working, hint, indeg2, heap2, Append(sorted, node))

\* lines 72-93.
KahnOrder(E, working, hint) ==
    LET indeg == InDegree(E, working)
        heap == {<<Priority(hint, working, n), n>> : n \in {m \in working : indeg[m] = 0}}
    IN KahnLoop(E, working, hint, indeg, heap, <<>>)

\* The variant that returns the sorted closure unfiltered.
FilterNothing(s, S) == s

\* lines 99-100.
RECURSIVE FilterSeq(_, _)
FilterSeq(s, S) ==
    IF s = <<>> THEN <<>>
    ELSE (IF Head(s) \in S THEN <<Head(s)>> ELSE <<>>) \o FilterSeq(Tail(s), S)

\* The variant that returns whatever Kahn's loop produced (no length check).
FinishNoCycleCheck(working, sorted, sub, none, incl) ==
    [status |-> "ok",
     order |-> IF none \/ incl THEN sorted ELSE FilterSeq(sorted, sub),
     remaining |-> {}]

\* lines 94-100.
Finish(working, sorted, sub, none, incl) ==
    IF Len(sorted) # Cardinality(working)
    THEN [status |-> "cycle", order |-> <<>>, remaining |-> working \ Range(sorted)]
    ELSE [status |-> "ok",
          order |-> IF none \/ incl THEN sorted ELSE FilterSeq(sorted, sub),
          remaining |-> {}]

\* PackageDepGraph.topo_sort
TopoSort(E, hint, sub, none, incl) ==
    LET w == WorkingNodes(E, sub, none)
    IN IF w.err THEN [status |-> "KeyError", order |-> <<>>, remaining |-> {}]
       ELSE Finish(w.nodes, KahnOrder(E, w.nodes, hint), sub, none, incl)

NotCalled == [status |-> "none", order |-> <<>>, remaining |-> {}]

NoSeries == [status |-> "none", series |-> <<>>]

\* No control file read.
GraphVarsInit ==
    /\ control_files = <<>>
    /\ unresolved = <<>>
    /\ gpc = "none"

\* Order hints tried: none, one hinted package, the reversed name order, and
\* one package hinted with a value above every default priority (a hint is
\* any mapping from package to integer).
HintChoices ==
    {<<>>} \cup {[n \in {x} |-> 0] : x \in Drawn}
           \cup {[n \in Drawn |-> 5 - NameRank(n)]}
           \cup {[n \in {"d"} |-> 100]}

SubsetChoices ==
    {S \in SUBSET (Drawn \cup {Unknown}) : Cardinality(S) <= MaxSubset}

TopoVarsInit ==
    /\ adj = {}
    /\ order_hint = <<>>
    /\ subset_none = FALSE
    /\ subset = {}
    /\ include_dependencies = FALSE
    /\ topo = NotCalled
    /\ series_out = NoSeries
    /\ GraphVarsInit

RunnerVarsInit ==
    /\ entries = <<>>
    /\ idx = 1
    /\ built_successfully = <<>>
    /\ completed_names = {}
    /\ rpc = "idle"
    /\ srcDirs = {}
    /\ install_artifacts = FALSE
    /\ hist = <<>>
    /\ awaiting = <<>>

\* No process result yet.
NoProc == [returncode |-> 0, lock_keyword |-> FALSE, named_pids |-> {}]

LockVarsInit ==
    /\ AUTO_KILL_LOCK_HOLDERS = TRUE
    /\ APT_WAIT_FOR_LOCK = TRUE
    /\ APT_LOCK_WAIT_TIMEOUT = 600
    /\ check = TRUE
    /\ effective_max = 0
    /\ attempts = 0
    /\ lpc = "idle"
    /\ proc = NoProc
    /\ outcome = "none"
    /\ executions = 0
    /\ signalled = {}
    /\ repair_commands = 0

\* No queue operation yet.
NoOp == [op |-> "none", tasks |-> <<>>, reset |-> FALSE, added |-> 0,
         repeat |-> FALSE]

StoreVarsInit ==
    /\ build_queue = <<>>
    /\ queue_packages = <<>>
    /\ package_status = <<>>
    /\ queue_file = <<>>
    /\ queue_meta_file = <<>>
    /\ last_op = NoOp

\* Nothing read, no save under way, the execution loop not entered.
NoRead == <<"nothing">>

NoRun == [pc |-> "none", kind |-> "", pending |-> <<>>, snapshot |-> <<>>,
          pos |-> 0, failed |-> <<>>, started |-> <<>>, succeeded |-> <<>>,
          saved |-> <<>>, report |-> ""]

MenuVarsInit ==
    /\ writer = "idle"
    /\ target = <<>>
    /\ pre_disk = <<>>
    /\ observed = NoRead
    /\ run = NoRun

TopoInit ==
    /\ MenuVarsInit
    /\ RunnerVarsInit
    /\ LockVarsInit
    /\ StoreVarsInit
    /\ adj \in {E \in SUBSET EdgeUniverse : Cardinality(E) <= MaxEdges}
    /\ order_hint \in HintChoices
    /\ subset_none \in BOOLEAN
    /\ subset \in IF subset_none THEN {{}} ELSE SubsetChoices
    /\ include_dependencies = FALSE
    /\ topo = NotCalled
    /\ series_out = NoSeries
    /\ GraphVarsInit

\* One call graph.topo_sort(subset, include_dependencies=incl).
TopoSortCall ==
    /\ topo.status = "none"
    /\ \E incl \in BOOLEAN :
         /\ include_dependencies' = incl
         /\ topo' = TopoSort(adj, order_hint, subset, subset_none, incl)
    /\ UNCHANGED <<adj, order_hint, subset, subset_none, series_out, graphVars>>
    /\ UNCHANGED outsideTopo

TopoNext == TopoSortCall

TopoSpec == TopoInit /\ [][TopoNext]_vars

(***************************************************************************)
(* Properties of topo_sort                                                 *)
(***************************************************************************)
\* The prerequisite closure stated as a least fixed point (not as the walk).
RECURSIVE PrereqClosure(_, _)
PrereqClosure(E, S) ==
    LET T == S \cup UNION {RevOf(E, n) : n \in S}
    IN IF T = S THEN S ELSE PrereqClosure(E, T)

\* n lies on a dependency cycle: it is among its own strict prerequisites.
OnCycle(E, n) == n \in PrereqClosure(E, RevOf(E, n))

HasCycle(E, W) == \E n \in W : OnCycle(E, n)

RequestedClosure == PrereqClosure(adj, subset)

Before(s, x, y) == IndexOf(s, x) < IndexOf(s, y)

\* C1: for a requested subset of known packages whose prerequisite closure
\* has no cycle, topo_sort(subset, include_dependencies=True) returns exactly
\* the packages of the closure, each once, every package after all of its
\* prerequisites.
C1_TopoSortClosureOrder ==
    (/\ topo.status # "none"
     /\ ~subset_none
     /\ include_dependencies
     /\ subset \subseteq Nodes
     /\ ~HasCycle(adj, RequestedClosure))
    => /\ topo.status = "ok"
       /\ Range(topo.order) = RequestedClosure
       /\ NoDup(topo.order)
       /\ \A e \in adj :
            (e[1] \in RequestedClosure /\ e[2] \in RequestedClosure)
            => Before(topo.order, e[1], e[2])

\* A call that scheduled two prerequisites nobody asked for.
C1_Witness ==
    /\ topo.status = "ok"
    /\ ~subset_none
    /\ include_dependencies
    /\ Cardinality(subset) = 1
    /\ Len(topo.order) = 3
    /\ Cardinality(adj) = 2

\* C2: topo_sort(subset, ...) fails with "cycle detected", returning no
\* order, exactly when the prerequisite closure of the requested subset
\* contains a cycle; a cycle outside the closure does not make it fail.
C2_CycleExactlyInClosure ==
    (/\ topo.status # "none"
     /\ ~subset_none
     /\ subset \subseteq Nodes)
    => /\ (topo.status = "cycle") <=> HasCycle(adj, RequestedClosure)
       /\ topo.status = "cycle" => topo.order = <<>>
       /\ (~HasCycle(adj, RequestedClosure) /\ HasCycle(adj, Nodes))
          => topo.status = "ok"

\* A failing call whose cycle lies in the closure while the closure is not
\* the whole graph.
C2_Witness ==
    /\ topo.status = "cycle"
    /\ ~subset_none
    /\ HasCycle(adj, RequestedClosure)
    /\ RequestedClosure # Nodes

(***************************************************************************)
(* debuild_runner: process_queue_entries and insert_missing_dependencies   *)
(***************************************************************************)
\* A package name is <<known source prefix or "", rest of the name>>.
DEPENDENCY_SOURCE_PREFIXES == {"agiros-pixiu-"}

Bare(b) == <<"", b>>
Pref(b) == <<"agiros-pixiu-", b>>

Bases == {"x", "y", "z"}
BareNames == {Bare(b) : b \in Bases}

\* Bounds of the run.
MaxEntries == 3
MaxQueue == 2
MaxMissing == 2
HistLen == 3

\* _strip_known_prefix
StripKnownPrefix(candidate) ==
    IF candidate[1] \in DEPENDENCY_SOURCE_PREFIXES /\ candidate[2] # ""
    THEN <<candidate, Bare(candidate[2])>>
    ELSE <<candidate>>

\* resolve_dependency_source: the first name variant with a debian/ directory.
ResolveDependencySource(candidate, dirs) ==
    LET variants == StripKnownPrefix(candidate)
        hits == {i \in 1..Len(variants) : variants[i] \in dirs}
    IN IF hits = {} THEN [found |-> FALSE, name |-> candidate]
       ELSE [found |-> TRUE, name |-> variants[Min(hits)]]

QueueEntry(n) == [name |-> n, path |-> n]

RemoveAt(s, i) == SubSeq(s, 1, i - 1) \o SubSeq(s, i + 1, Len(s))

\* list.insert(p - 1, e): an index past the end appends.
InsertAt(s, p, e) ==
    IF p > Len(s) THEN Append(s, e)
    ELSE SubSeq(s, 1, p - 1) \o <<e>> \o SubSeq(s, p, Len(s))

NoTarget(ents) ==
    [found |-> FALSE, entry |-> QueueEntry(Bare("")), entries |-> ents, synth |-> FALSE]

\* A candidate test that never finds a name completed.
NeverCompleted(variants, completed) == FALSE

\* lines 615-616: any(name in completed for name in name_variants).
AnyCompleted(variants, completed) == variants \cap completed # {}

\* lines 617-621: range(current_index + 1, len(entries)), whatever this call
\* has inserted so far.
LaterMatches(ents, variants, cur) ==
    {i \in (cur + 1)..Len(ents) : ents[i].name \in variants}

\* lines 613-629: the loop over dep.valid_candidates().
RECURSIVE CandidateLoop(_, _, _, _, _)
CandidateLoop(ents, cands, cur, completed, dirs) ==
    IF cands = <<>> THEN NoTarget(ents)
    ELSE LET candidate == Head(cands)
             variants == Range(StripKnownPrefix(candidate))
             later == LaterMatches(ents, variants, cur)
             resolved == ResolveDependencySource(candidate, dirs)
         IN IF AnyCompleted(variants, completed)
            THEN CandidateLoop(ents, Tail(cands), cur, completed, dirs)
            ELSE IF later # {}
            THEN [found |-> TRUE, entry |-> ents[Min(later)],
                  entries |-> RemoveAt(ents, Min(later)), synth |-> FALSE]
            ELSE IF resolved.found
            THEN [found |-> TRUE, entry |-> QueueEntry(resolved.name),
                  entries |-> ents, synth |-> TRUE]
            ELSE CandidateLoop(ents, Tail(cands), cur, completed, dirs)

\* lines 609-638: the loop over the selected missing dependencies.
RECURSIVE InsertLoop(_, _, _, _, _, _, _)
InsertLoop(ents, deps, cur, completed, dirs, inserted, synth) ==
    IF deps = <<>>
    THEN [entries |-> ents, inserted |-> inserted, synth |-> synth]
    ELSE LET t == CandidateLoop(ents, Head(deps), cur, completed, dirs)
         IN IF ~t.found
            THEN InsertLoop(ents, Tail(deps), cur, completed, dirs, inserted, synth)
            ELSE IF t.entry.name \in Range(inserted)
            THEN InsertLoop(t.entries, Tail(deps), cur, completed, dirs, inserted, synth)
            ELSE InsertLoop(InsertAt(t.entries, cur + Len(inserted), t.entry),
                            Tail(deps), cur, completed, dirs,
                            Append(inserted, t.entry.name),
                            IF t.synth THEN synth \cup {t.entry.name} ELSE synth)

\* insert_missing_dependencies
InsertMissingDependencies(ents, selected, cur, completed, dirs) ==
    InsertLoop(ents, selected, cur, completed, dirs, <<>>, {})

\* What detect_missing_build_dependencies may report: each dependency is its
\* list of candidate names ("a | b" gives two).
DepChoices ==
    {<<Bare("x")>>, <<Pref("y")>>, <<Bare("z"), Bare("y")>>}

\* lines 559-563: no two reported dependencies share their first candidate.
Diagnoses ==
    {m \in UNION {[1..n -> DepChoices] : n \in 0..MaxMissing} :
        \A i, j \in 1..Len(m) : m[i][1] = m[j][1] => i = j}

RECURSIVE Perms(_)
Perms(S) ==
    IF S = {} THEN {<<>>}
    ELSE UNION {{<<x>> \o p : p \in Perms(S \ {x})} : x \in S}

\* Queues given to process_queue_entries: every package at most once.
InitialQueues ==
    UNION {{[i \in 1..Len(p) |-> QueueEntry(p[i])] : p \in Perms(S)} :
              S \in {T \in SUBSET BareNames : Cardinality(T) <= MaxQueue}}

\* Which source directories exist: all of them, or all but y's.
SrcDirChoices == {BareNames, BareNames \ {Bare("y")}}

NoName == Bare("")

\* One loop iteration as the history keeps it: what happened to which entry,
\* the name the diagnosis reported when it reported exactly one dependency
\* with one candidate, and what was inserted.
StepRec(kind, name, missing, inserted) ==
    [kind |-> kind, name |-> name,
     only |-> IF Len(missing) = 1 /\ Len(missing[1]) = 1 THEN missing[1][1] ELSE NoName,
     inserted |-> inserted]

Remember(h, rec) ==
    IF Len(h) < HistLen THEN Append(h, rec) ELSE Append(Tail(h), rec)

\* The entry `name` was taken up by the loop (built or skipped).
TakenUp(aw, name) == [n \in DOMAIN aw |-> aw[n] \ {name}]

RunnerInit ==
    /\ MenuVarsInit
    /\ TopoVarsInit
    /\ LockVarsInit
    /\ StoreVarsInit
    /\ entries \in InitialQueues
    /\ idx = 1
    /\ built_successfully = <<>>
    /\ completed_names = {}
    /\ rpc = "loop"
    /\ srcDirs \in SrcDirChoices
    /\ install_artifacts \in BOOLEAN
    /\ hist = <<>>
    /\ awaiting = [n \in BareNames |-> {}]

InLoop == rpc = "loop" /\ idx <= Len(entries)

HasDir(entry) == entry.path \in srcDirs

\* lines 1043-1051: the directory or its debian/ is missing.
SkipEntry ==
    /\ InLoop
    /\ ~HasDir(entries[idx])
    /\ idx' = idx + 1
    /\ hist' = Remember(hist, StepRec("skip", entries[idx].name, <<>>, <<>>))
    /\ awaiting' = TakenUp(awaiting, entries[idx].name)
    /\ UNCHANGED <<entries, built_successfully, completed_names, rpc,
                   srcDirs, install_artifacts>>
    /\ UNCHANGED outsideRunner

\* lines 1057-1064 with rc = 0, then lines 1080-1097.
BuildSucceeds ==
    /\ InLoop
    /\ HasDir(entries[idx])
    /\ \E installed \in BOOLEAN :
         IF install_artifacts /\ ~installed
         THEN /\ hist' = Remember(hist, StepRec("install_failed", entries[idx].name,
                                                <<>>, <<>>))
              /\ UNCHANGED <<built_successfully, completed_names>>
         ELSE /\ hist' = Remember(hist, StepRec("ok", entries[idx].name, <<>>, <<>>))
              /\ built_successfully' = Append(built_successfully, entries[idx].name)
              /\ completed_names' = completed_names \cup {entries[idx].name}
    /\ idx' = idx + 1
    /\ awaiting' = TakenUp(awaiting, entries[idx].name)
    /\ UNCHANGED <<entries, rpc, srcDirs, install_artifacts>>
    /\ UNCHANGED outsideRunner

\* lines 1065-1079: rc # 0, diagnosis, insertion, retry or give up.
BuildFails ==
    /\ InLoop
    /\ HasDir(entries[idx])
    /\ \E missing \in Diagnoses :
         LET r == InsertMissingDependencies(entries, missing, idx, completed_names, srcDirs)
             name == entries[idx].name
         IN /\ Len(r.entries) <= MaxEntries
            /\ entries' = r.entries
            /\ idx' = IF r.inserted # <<>> THEN idx ELSE idx + 1
            /\ hist' = Remember(hist, StepRec("fail", name, missing, r.inserted))
            /\ awaiting' = IF r.inserted # <<>>
                           THEN [TakenUp(awaiting, name) EXCEPT ![name] = Range(r.inserted)]
                           ELSE TakenUp(awaiting, name)
    /\ UNCHANGED <<built_successfully, completed_names, rpc, srcDirs, install_artifacts>>
    /\ UNCHANGED outsideRunner

\* line 1041 false: the loop ends (lines 1099-1104).
FinishRun ==
    /\ rpc = "loop"
    /\ idx > Len(entries)
    /\ rpc' = "done"
    /\ UNCHANGED <<entries, idx, built_successfully, completed_names,
                   srcDirs, install_artifacts, hist, awaiting>>
    /\ UNCHANGED outsideRunner

RunnerNext == SkipEntry \/ BuildSucceeds \/ BuildFails \/ FinishRun

RunnerSpec == RunnerInit /\ [][RunnerNext]_vars

\* The loop is sequential code: it keeps running while it has a next step.
RunnerFairSpec == RunnerSpec /\ WF_vars(RunnerNext)

(***************************************************************************)
(* Claims about process_queue_entries                                      *)
(***************************************************************************)
BuildKinds == {"ok", "install_failed", "fail"}

\* The latest record of the history, and the ones before it.
Latest(k) == hist[Len(hist) - k]

\* C3: process_queue_entries terminates for every finite queue and every
\* behaviour of the build and of the diagnosis: the loop reaches its end, so
\* every package is built only finitely often and a package failing again
\* without a newly discovered dependency is not retried once more.
C3_QueueRunTerminates == <>(rpc = "done")

\* C4: a failing build at index i with k inserted dependencies leaves the k
\* entries at i..i+k-1 in report order, the failing task at i+k, the entries
\* before i untouched and index i as the next to build; and no entry is
\* built while entries inserted on its behalf are still waiting.
C4_InsertedBeforeFailingTask ==
    /\ [][(BuildFails /\ hist'[Len(hist')].inserted # <<>>)
            => LET ins == hist'[Len(hist')].inserted
                   k == Len(ins)
               IN /\ Len(entries') >= idx + k
                  /\ \A j \in 1..k : entries'[idx + j - 1].name = ins[j]
                  /\ entries'[idx + k] = entries[idx]
                  /\ SubSeq(entries', 1, idx - 1) = SubSeq(entries, 1, idx - 1)
                  /\ idx' = idx]_vars
    /\ [][(BuildSucceeds \/ BuildFails) => awaiting[entries[idx].name] = {}]_vars

\* The history ends with: X failed reporting one single-candidate dependency
\* and exactly Y, another package, was inserted; then Y built and was
\* recorded as completed.
C5_YBuiltForX(k) ==
    /\ Len(hist) >= k + 2
    /\ Latest(k + 1).kind = "fail"
    /\ Latest(k + 1).only # NoName
    /\ Len(Latest(k + 1).inserted) = 1
    /\ Latest(k + 1).inserted[1] # Latest(k + 1).name
    /\ Latest(k).kind = "ok"
    /\ Latest(k).name = Latest(k + 1).inserted[1]

APT_MAX_RETRIES == 3

\* The executions counter stops counting here.
MaxExecutions == 5

HolderPid == 1234
OwnPid == 10
ParentPid == 9

\* A finished command: its return code, whether its output holds one of the
\* lock keywords, and the pids its output names ("... held by process 1234").
Procs ==
    [returncode : {0, 1, 100}, lock_keyword : BOOLEAN,
     named_pids : SUBSET {HolderPid, OwnPid}]

\* _extract_lock_pids: the pattern is written r"process(?:\\D+)?(\\d+)", so
\* \\D and \\d stand for a backslash followed by the letters D and d.  The
\* group never captures digits: int() raises ValueError on what it captures
\* and the match is dropped.  No pid is ever extracted.
ExtractLockPids(result) == {}

\* _terminate_processes: the pids that are sent SIGTERM (then SIGKILL).
TerminateProcesses(pids) == pids \ {OwnPid, ParentPid}

\* _fix_dpkg_state (two commands), _purge_broken_build_deps (one),
\* _fix_dpkg_state again.
RepairCommandsPerRecovery == 5

\* _wait_for_lock_release: FALSE at once when waiting is off or the timeout
\* is not positive; otherwise the lock clears in time or it does not.
WaitOutcomes ==
    IF APT_WAIT_FOR_LOCK /\ APT_LOCK_WAIT_TIMEOUT > 0 THEN BOOLEAN ELSE {FALSE}

Handled(retry, consume, victims, repairs) ==
    [should_retry |-> retry, consume_attempt |-> consume,
     victims |-> victims, repairs |-> repairs]

\* A handler that recovers whatever AUTO_KILL_LOCK_HOLDERS says.
HandleLockAlwaysRecover(result, released) ==
    LET pids == ExtractLockPids(result)
    IN IF ~(pids # {} \/ result.lock_keyword) THEN Handled(FALSE, FALSE, {}, 0)
       ELSE IF released THEN Handled(TRUE, FALSE, {}, 0)
       ELSE Handled(TRUE, TRUE, TerminateProcesses(pids), RepairCommandsPerRecovery)

\* A handler whose successful wait uses up a retry credit.
HandleLockWaitConsumes(result, released) ==
    LET pids == ExtractLockPids(result)
        has_lock == pids # {} \/ result.lock_keyword
    IN IF ~has_lock THEN Handled(FALSE, FALSE, {}, 0)
       ELSE IF released THEN Handled(TRUE, TRUE, {}, 0)
       ELSE IF ~AUTO_KILL_LOCK_HOLDERS THEN Handled(FALSE, FALSE, {}, 0)
       ELSE Handled(TRUE, TRUE, TerminateProcesses(pids), RepairCommandsPerRecovery)

\* _handle_lock_and_recover; `released` is what _wait_for_lock_release gave.
HandleLockAndRecover(result, released) ==
    LET pids == ExtractLockPids(result)
        has_lock == pids # {} \/ result.lock_keyword
    IN IF ~has_lock THEN Handled(FALSE, FALSE, {}, 0)
       ELSE IF released THEN Handled(TRUE, FALSE, {}, 0)
       ELSE IF ~AUTO_KILL_LOCK_HOLDERS THEN Handled(FALSE, FALSE, {}, 0)
       ELSE Handled(TRUE, TRUE, TerminateProcesses(pids), RepairCommandsPerRecovery)

CountExecution(n) == IF n < MaxExecutions THEN n + 1 ELSE n

\* The variant that never raises.
HandBackReturned == "returned"

\* lines 431-438: raise CalledProcessError when check is set, else return.
HandBack == IF check THEN "raised" ELSE "returned"

LockInit ==
    /\ MenuVarsInit
    /\ TopoVarsInit
    /\ RunnerVarsInit
    /\ StoreVarsInit
    /\ AUTO_KILL_LOCK_HOLDERS \in BOOLEAN
    /\ APT_WAIT_FOR_LOCK \in BOOLEAN
    /\ APT_LOCK_WAIT_TIMEOUT \in {0, 600}
    /\ check \in BOOLEAN
    /\ effective_max \in -1..APT_MAX_RETRIES
    /\ attempts = 0
    /\ lpc = "run"
    /\ proc = NoProc
    /\ outcome = "none"
    /\ executions = 0
    /\ signalled = {}
    /\ repair_commands = 0

lockSettings == <<AUTO_KILL_LOCK_HOLDERS, APT_WAIT_FOR_LOCK, APT_LOCK_WAIT_TIMEOUT,
                  check, effective_max>>

\* lines 406-418: the command runs and returns 0.
CommandSucceeds ==
    /\ lpc = "run"
    /\ attempts <= effective_max
    /\ \E p \in Procs : p.returncode = 0 /\ proc' = p
    /\ executions' = CountExecution(executions)
    /\ outcome' = "returned"
    /\ lpc' = "done"
    /\ UNCHANGED <<lockSettings, attempts, signalled, repair_commands>>
    /\ UNCHANGED outsideLock

\* lines 406-420: the command runs and fails.
CommandFails ==
    /\ lpc = "run"
    /\ attempts <= effective_max
    /\ \E p \in Procs : p.returncode # 0 /\ proc' = p
    /\ executions' = CountExecution(executions)
    /\ lpc' = "handle"
    /\ UNCHANGED <<lockSettings, attempts, outcome, signalled, repair_commands>>
    /\ UNCHANGED outsideLock

\* lines 421-426: the lock is handled and the loop goes on.
HandleAndRetry ==
    /\ lpc = "handle"
    /\ \E released \in WaitOutcomes :
         LET h == HandleLockAndRecover(proc, released)
         IN /\ attempts < effective_max /\ h.should_retry
            /\ attempts' = IF h.consume_attempt THEN attempts + 1 ELSE attempts
            /\ signalled' = signalled \cup h.victims
            /\ repair_commands' = repair_commands + h.repairs
    /\ lpc' = "run"
    /\ UNCHANGED <<lockSettings, proc, outcome, executions>>
    /\ UNCHANGED outsideLock

\* lines 421-438: the lock is handled, the loop is left, the failure is
\* handed back.
HandleAndStop ==
    /\ lpc = "handle"
    /\ \E released \in WaitOutcomes :
         LET h == HandleLockAndRecover(proc, released)
         IN /\ ~(attempts < effective_max /\ h.should_retry)
            /\ signalled' = signalled \cup h.victims
            /\ repair_commands' = repair_commands + h.repairs
    /\ outcome' = HandBack
    /\ lpc' = "done"
    /\ UNCHANGED <<lockSettings, attempts, proc, executions>>
    /\ UNCHANGED outsideLock

\* line 406 false on entry (negative max_retries): line 438 reads `proc`,
\* which was never bound.
LoopNotEntered ==
    /\ lpc = "run"
    /\ attempts > effective_max
    /\ lpc' = "done"
    /\ outcome' = "UnboundLocalError"
    /\ UNCHANGED <<lockSettings, attempts, proc, executions, signalled, repair_commands>>
    /\ UNCHANGED outsideLock

LockNext ==
    CommandSucceeds \/ CommandFails \/ HandleAndRetry \/ HandleAndStop \/ LoopNotEntered

LockSpec == LockInit /\ [][LockNext]_vars

\* The loop is sequential code: it keeps running while it has a next step.
LockFairSpec == LockSpec /\ WF_vars(LockNext)

(***************************************************************************)
(* Claims about run_with_lock_retries                                      *)
(***************************************************************************)
\* C6: run_with_lock_retries terminates for every behaviour of the command,
\* of the wait and of the recovery: the retry loop is left after a number of
\* executions bounded by max_retries.
C6_LockRetriesTerminate == <>(lpc = "done")

\* The output shows lock contention: a lock keyword or a holder's pid.
LockSignature(result) == result.lock_keyword \/ result.named_pids # {}

\* C7: with auto-kill and wait-for-lock both disabled the command is run at
\* most once, no process is signalled and no repair command is run; when
\* that one run fails with a lock-contention signature its failure is handed
\* back: raised if check is set, returned otherwise.
C7_NoRecoveryWhenDisabled ==
    (lpc # "idle" /\ ~AUTO_KILL_LOCK_HOLDERS /\ ~APT_WAIT_FOR_LOCK)
    => /\ executions <= 1
       /\ signalled = {}
       /\ repair_commands = 0
       /\ lpc = "handle" => executions = 1
       /\ (lpc = "done" /\ proc.returncode # 0 /\ LockSignature(proc))
          => /\ executions = 1
             /\ outcome = IF check THEN "raised" ELSE "returned"

\* The call ended on a failure that names holder 1234 next to a lock keyword,
\* with both settings off and check set.
C7_Witness ==
    /\ lpc = "done"
    /\ ~AUTO_KILL_LOCK_HOLDERS
    /\ ~APT_WAIT_FOR_LOCK
    /\ check
    /\ effective_max = APT_MAX_RETRIES
    /\ outcome = "raised"
    /\ proc.returncode # 0
    /\ proc.lock_keyword
    /\ proc.named_pids = {HolderPid}
    /\ executions = 1

(***************************************************************************)
(* agiros_tools_menu: the queue store of MenuState                         *)
(***************************************************************************)
\* Package directories that exist under code_dir (all of them are graph
\* nodes of the dependency sort), the two task kinds, and the directories.
StoreNames == {"a", "b"}
Kinds == {"debian", "rpm"}
CodeDir == "code_dir"
OtherDir == "elsewhere"
Cwd == "cwd"
ArgChoices == {<<>>, <<"-j4">>}

\* Bounds of the store inputs.
MaxLines == 2
MaxMeta == 1
MaxAdd == 2

\* A name or path as the files spell it: the text before the last "/" and
\* the text after it.
Str(parent, base) == [parent |-> parent, base |-> base]
EmptyStr == Str("", "")
PlainStr(n) == Str("", n)

\* Path(s).name
PathName(s) == s.base

\* A Path object; str(path); Path(s).expanduser().resolve(), where a relative
\* path resolves against the working directory.
MkPath(dir, name) == [dir |-> dir, name |-> name]
PathToStr(p) == Str(p.dir, p.name)
StrToPath(s) == MkPath(IF s.parent = "" THEN Cwd ELSE s.parent, s.base)

BuildTask(display_name, path, kind, extra_args) ==
    [display_name |-> display_name, path |-> path, kind |-> kind,
     extra_args |-> extra_args]

\* Python dicts keep insertion order: a list of key/value pairs.
DictHas(d, k) == \E i \in 1..Len(d) : d[i].key = k

DictGet(d, k, default) ==
    IF DictHas(d, k) THEN d[CHOOSE i \in 1..Len(d) : d[i].key = k].val
    ELSE default

DictSet(d, k, v) ==
    IF DictHas(d, k)
    THEN [i \in 1..Len(d) |->
            IF d[i].key = k THEN [key |-> k, val |-> v] ELSE d[i]]
    ELSE Append(d, [key |-> k, val |-> v])

RECURSIVE DictUpdate(_, _)
DictUpdate(d, other) ==
    IF other = <<>> THEN d
    ELSE DictUpdate(DictSet(d, Head(other).key, Head(other).val), Tail(other))

DictKeys(d) == [i \in 1..Len(d) |-> d[i].key]

\* package_status: a function on the keys present.
StatusGet(status, pkg) == pkg \in DOMAIN status /\ status[pkg]

StatusSet(status, pkg, value) ==
    [n \in DOMAIN status \cup {pkg} |-> IF n = pkg THEN value ELSE status[n]]

StatusPop(status, pkg) == [n \in DOMAIN status \ {pkg} |-> status[n]]

\* The lines of the queue file: "name" / "name#", or one JSON object with
\* name, completed, kind, path and extra_args.
BareLine(name, hash) ==
    [form |-> "bare", name |-> name, completed |-> hash, kind |-> "",
     path |-> EmptyStr, extra_args |-> <<>>]

InlineLine(name, completed, kind, path, extra_args) ==
    [form |-> "inline", name |-> name, completed |-> completed, kind |-> kind,
     path |-> path, extra_args |-> extra_args]

\* The value of one metadata entry.
MetaInfo(path, kinds) == [path |-> path, kinds |-> kinds]
EmptyInfo == MetaInfo(EmptyStr, <<>>)

\* The variant of lines 407-408 that lists a name once per line read.
LoadedPackagesEveryLine(packages, name) == Append(packages, name)

\* load_queue_from_file lines 407-408.
LoadedPackages(packages, name) ==
    IF name \in Range(packages) THEN packages ELSE Append(packages, name)

\* load_queue_from_file lines 368-409: the pass over the queue file.
RECURSIVE ReadLines(_, _, _, _)
ReadLines(lines, packages, status, legacy_meta) ==
    IF lines = <<>>
    THEN [packages |-> packages, status |-> status, legacy_meta |-> legacy_meta]
    ELSE LET line == Head(lines)
             entry == DictGet(legacy_meta, line.name, MetaInfo(line.path, <<>>))
             legacy ==
                 IF line.form = "inline"
                 THEN DictSet(legacy_meta, line.name,
                              MetaInfo(IF line.path # EmptyStr THEN line.path
                                       ELSE entry.path,
                                       DictSet(entry.kinds, line.kind,
                                               line.extra_args)))
                 ELSE legacy_meta
             name == PathName(line.name)
         IN IF name = ""
            THEN ReadLines(Tail(lines), packages, status, legacy)
            ELSE ReadLines(Tail(lines), LoadedPackages(packages, name),
                           StatusSet(status, name,
                                     StatusGet(status, name) \/ line.completed),
                           legacy)

\* lines 419-440: keys of the metadata map reduced to their last component,
\* entries with the same reduced key merged.
RECURSIVE NormalizeMeta(_, _)
NormalizeMeta(meta, normalized_meta) ==
    IF meta = <<>> THEN normalized_meta
    ELSE LET value == Head(meta).val
             new_key == PlainStr(PathName(Head(meta).key))
             existing == DictGet(normalized_meta, new_key, EmptyInfo)
             merged ==
                 MetaInfo(IF value.path # EmptyStr /\ existing.path = EmptyStr
                          THEN value.path ELSE existing.path,
                          DictUpdate(existing.kinds, value.kinds))
         IN IF PathName(Head(meta).key) = ""
            THEN NormalizeMeta(Tail(meta), normalized_meta)
            ELSE IF DictHas(normalized_meta, new_key)
            THEN NormalizeMeta(Tail(meta),
                               DictSet(normalized_meta, new_key, merged))
            ELSE NormalizeMeta(Tail(meta),
                               DictSet(normalized_meta, new_key, value))

\* lines 442-455: the inline records merged over the metadata map.
RECURSIVE MergeLegacy(_, _)
MergeLegacy(meta, legacy_meta) ==
    IF legacy_meta = <<>> THEN meta
    ELSE LET pkg == Head(legacy_meta).key
             info == Head(legacy_meta).val
             existing == DictGet(meta, pkg, EmptyInfo)
             path_to_use == IF info.path # EmptyStr THEN info.path
                            ELSE existing.path
         IN MergeLegacy(DictSet(meta, pkg,
                                MetaInfo(path_to_use,
                                         DictUpdate(existing.kinds, info.kinds))),
                        Tail(legacy_meta))

\* The variant without the default task of lines 473-475.
RECURSIVE TasksFromMetaNoDefault(_, _)
TasksFromMetaNoDefault(packages, meta) ==
    IF packages = <<>> THEN <<>>
    ELSE LET pkg == Head(packages)
             info == DictGet(meta, PlainStr(pkg), EmptyInfo)
             base_path == IF info.path # EmptyStr THEN StrToPath(info.path)
                          ELSE MkPath(CodeDir, pkg)
         IN [i \in 1..Len(info.kinds) |->
               BuildTask(pkg, base_path, info.kinds[i].key, info.kinds[i].val)]
            \o TasksFromMetaNoDefault(Tail(packages), meta)

\* lines 457-485: one task per package and kind, a default debian task for
\* a package without kinds.
RECURSIVE TasksFromMeta(_, _)
TasksFromMeta(packages, meta) ==
    IF packages = <<>> THEN <<>>
    ELSE LET pkg == Head(packages)
             info == DictGet(meta, PlainStr(pkg), EmptyInfo)
             base_path == IF info.path # EmptyStr THEN StrToPath(info.path)
                          ELSE MkPath(CodeDir, pkg)
             tasks == IF info.kinds = <<>>
                      THEN <<BuildTask(pkg, base_path, "debian", <<>>)>>
                      ELSE [i \in 1..Len(info.kinds) |->
                              BuildTask(pkg, base_path, info.kinds[i].key,
                                        info.kinds[i].val)]
         IN tasks \o TasksFromMeta(Tail(packages), meta)

\* The queue: what MenuState holds in memory and the two files.
Store(tasks, packages, status, lines, meta) ==
    [build_queue |-> tasks, queue_packages |-> packages,
     package_status |-> status, queue_file |-> lines,
     queue_meta_file |-> meta]

Current ==
    Store(build_queue, queue_packages, package_status, queue_file,
          queue_meta_file)

\* lines 411-490: the metadata read and merged, the tasks built, the three
\* fields of MenuState replaced.
LoadRead(st, read) ==
    Store(TasksFromMeta(read.packages,
                        MergeLegacy(NormalizeMeta(st.queue_meta_file, <<>>),
                                    read.legacy_meta)),
          read.packages, read.status, st.queue_file, st.queue_meta_file)

\* MenuState.load_queue_from_file (the queue file exists: ensure_queue_file).
LoadQueueFromFile(st) == LoadRead(st, ReadLines(st.queue_file, <<>>, <<>>, <<>>))

\* save_queue line 499.
TaskKey(task) == <<task.path.name, task.kind>>

\* save_queue lines 494-504: the first task of every key, named after its
\* directory.
RECURSIVE UniqueTasks(_, _)
UniqueTasks(tasks, seen) ==
    IF tasks = <<>> THEN <<>>
    ELSE LET task == Head(tasks)
         IN IF TaskKey(task) \in seen THEN UniqueTasks(Tail(tasks), seen)
            ELSE <<[task EXCEPT !.display_name = task.path.name]>>
                 \o UniqueTasks(Tail(tasks), seen \cup {TaskKey(task)})

\* save_queue lines 505-509.
RECURSIVE AppendTaskPackages(_, _)
AppendTaskPackages(package_order, tasks) ==
    IF tasks = <<>> THEN package_order
    ELSE LET package_name == Head(tasks).path.name
         IN AppendTaskPackages(IF package_name \in Range(package_order)
                               THEN package_order
                               ELSE Append(package_order, package_name),
                               Tail(tasks))

\* save_queue lines 505-511: packages without a task are dropped.
PackageOrder(packages, tasks) ==
    FilterSeq(AppendTaskPackages(packages, tasks),
              {tasks[i].path.name : i \in 1..Len(tasks)})

\* MenuState._write_queue_file
WriteQueueFile(packages, status) ==
    [i \in 1..Len(packages) |->
       BareLine(PlainStr(packages[i]), StatusGet(status, packages[i]))]

\* MenuState._write_meta_from_tasks
RECURSIVE WriteMetaFromTasks(_, _)
WriteMetaFromTasks(tasks, meta) ==
    IF tasks = <<>> THEN meta
    ELSE LET task == Head(tasks)
             key == PlainStr(task.display_name)
             entry == DictGet(meta, key, EmptyInfo)
         IN WriteMetaFromTasks(
                Tail(tasks),
                DictSet(meta, key,
                        MetaInfo(PathToStr(task.path),
                                 DictSet(entry.kinds, task.kind,
                                         task.extra_args))))

\* save_queue line 512.
ListedStatus(package_order, status) ==
    [pkg \in Range(package_order) |-> StatusGet(status, pkg)]

\* save_queue lines 513-520: the fields of MenuState replaced, both files
\* written.
SaveOrdered(tasks, package_order, status) ==
    Store(tasks, package_order, ListedStatus(package_order, status),
          WriteQueueFile(package_order, ListedStatus(package_order, status)),
          WriteMetaFromTasks(tasks, <<>>))

\* save_queue lines 505-520.
SaveUnique(st, tasks) ==
    SaveOrdered(tasks, PackageOrder(st.queue_packages, tasks), st.package_status)

\* MenuState.save_queue
SaveQueue(st) == SaveUnique(st, UniqueTasks(st.build_queue, {}))

\* MenuState.clear_queue
ClearQueue(st) == Store(<<>>, <<>>, <<>>, <<>>, <<>>)

\* The variant of lines 543-549 that never finds a queued task.
ExistingTaskNever(queue, task) == {}

\* add_tasks lines 543-549: the positions of queued tasks with the key of
\* the added task (the loop stops at the first).
ExistingTask(queue, task) ==
    {i \in 1..Len(queue) :
        queue[i].path.name = task.path.name /\ queue[i].kind = task.kind}

\* add_tasks lines 538-558: the loop over the added tasks.
RECURSIVE AddLoop(_, _, _, _)
AddLoop(st, tasks, reset_completed, added) ==
    IF tasks = <<>> THEN [st |-> st, added |-> added]
    ELSE LET task == Head(tasks)
             package_name == task.path.name
             found == ExistingTask(st.build_queue, task)
             replaced == found # {}
             queue == IF replaced
                      THEN [st.build_queue EXCEPT ![Min(found)] =
                              BuildTask(package_name, task.path, task.kind,
                                        task.extra_args)]
                      ELSE Append(st.build_queue,
                                  [task EXCEPT !.display_name = package_name])
             packages == IF package_name \in Range(st.queue_packages)
                         THEN st.queue_packages
                         ELSE Append(st.queue_packages, package_name)
             status == IF ~replaced \/ reset_completed
                          \/ package_name \notin DOMAIN st.package_status
                       THEN StatusSet(st.package_status, package_name, FALSE)
                       ELSE st.package_status
         IN AddLoop(Store(queue, packages, status, st.queue_file,
                          st.queue_meta_file),
                    Tail(tasks), reset_completed,
                    IF replaced THEN added ELSE added + 1)

\* The variant that counts every task handed in as newly added.
AddTasksCountingAll(st, tasks, reset_completed) ==
    IF tasks = <<>> THEN [st |-> st, added |-> 0, total |-> 0]
    ELSE [st |-> SaveQueue(AddLoop(st, tasks, reset_completed, 0).st),
          added |-> Len(tasks), total |-> Len(tasks)]

\* MenuState.add_tasks: returns (added, total); an empty list changes and
\* saves nothing.
AddTasks(st, tasks, reset_completed) ==
    IF tasks = <<>> THEN [st |-> st, added |-> 0, total |-> 0]
    ELSE LET done == AddLoop(st, tasks, reset_completed, 0)
         IN [st |-> SaveQueue(done.st), added |-> done.added,
             total |-> Len(tasks)]

\* manage_build_queue line 1420.
RECURSIVE TasksNotOf(_, _)
TasksNotOf(tasks, removed_pkg) ==
    IF tasks = <<>> THEN <<>>
    ELSE (IF Head(tasks).display_name # removed_pkg THEN <<Head(tasks)>> ELSE <<>>)
         \o TasksNotOf(Tail(tasks), removed_pkg)

\* manage_build_queue lines 1414-1423: the package at position i removed.
RemovePackage(st, i) ==
    LET removed_pkg == st.queue_packages[i]
    IN SaveQueue(Store(TasksNotOf(st.build_queue, removed_pkg),
                       RemoveAt(st.queue_packages, i),
                       StatusPop(st.package_status, removed_pkg),
                       st.queue_file, st.queue_meta_file))

\* manage_build_queue lines 1512-1550: the outcome of the build of one
\* pending debian package recorded and saved.
RecordBuild(st, pkg, built) ==
    SaveQueue([st EXCEPT !.package_status = StatusSet(@, pkg, built)])

\* _packages_for_kind
PackagesForKind(st, target_kind) ==
    FilterSeq(st.queue_packages,
              {st.build_queue[i].display_name :
                 i \in {k \in 1..Len(st.build_queue) :
                          st.build_queue[k].kind = target_kind}})

\* debuild_runner.parse_queue_line: the entry of a line, none for an inline
\* line of another kind.
ParsesAsEntry(line) ==
    /\ PathName(line.name) # ""
    /\ line.form = "inline" => line.kind \in {"debian", "gbp"}

\* debuild_runner.mark_completed: the lines of the named packages marked.
MarkCompleted(lines, completed) ==
    [i \in 1..Len(lines) |->
       IF ParsesAsEntry(lines[i]) /\ PathName(lines[i].name) \in completed
       THEN [lines[i] EXCEPT !.completed = TRUE]
       ELSE lines[i]]

\* debuild_runner.auto_mark_prebuilt_packages: prebuilt is the set of
\* packages with a .deb next to their directory.
AutoMarkPrebuiltPackages(lines, prebuilt) ==
    LET unique == {PathName(lines[i].name) :
                     i \in {k \in 1..Len(lines) :
                              /\ ParsesAsEntry(lines[k])
                              /\ ~lines[k].completed
                              /\ PathName(lines[k].name) \in prebuilt}}
    IN [marked |-> unique, lines |-> MarkCompleted(lines, unique)]

RECURSIVE ClearFlags(_, _)
ClearFlags(status, pkgs) ==
    IF pkgs = {} THEN status
    ELSE LET pkg == CHOOSE x \in pkgs : TRUE
         IN ClearFlags(StatusSet(status, pkg, FALSE), pkgs \ {pkg})

\* review_completed_packages lines 817-823.
Unmarked(st, picked) ==
    IF picked = {} THEN st
    ELSE SaveQueue([st EXCEPT !.package_status = ClearFlags(@, picked)])

\* review_completed_packages lines 809-815.
AutoMarked(st, marked) ==
    IF marked.marked = {} THEN st
    ELSE LoadQueueFromFile([st EXCEPT !.queue_file = marked.lines])

\* review_completed_packages: auto_mark is the answer to the first question
\* and unselect the packages picked at the second (none when declined).
ReviewCompletedPackages(st, target_kind, auto_mark, prebuilt, unselect) ==
    LET packages == Range(PackagesForKind(st, target_kind))
        completed == {p \in packages : StatusGet(st.package_status, p)}
    IN Unmarked(IF packages \ completed # {} /\ auto_mark
                THEN AutoMarked(st, AutoMarkPrebuiltPackages(st.queue_file,
                                                             prebuilt))
                ELSE st,
                unselect \cap completed)

\* The variant that joins nothing: every package alone.
ComponentOnlyItself(E, relevant, S) == S

\* The variant that joins a package to its followers only.
RECURSIVE ComponentFollowers(_, _, _)
ComponentFollowers(E, relevant, S) ==
    LET more == S \cup {m \in relevant : \E n \in S : <<n, m>> \in E}
    IN IF more = S THEN S ELSE ComponentFollowers(E, relevant, more)

\* compute_series_toposort lines 155-166: the nodes joined to S by edges in
\* either direction.
RECURSIVE Component(_, _, _)
Component(E, relevant, S) ==
    LET more == S \cup {m \in relevant :
                          \E n \in S : <<n, m>> \in E \/ <<m, n>> \in E}
    IN IF more = S THEN S ELSE Component(E, relevant, more)

\* The variant that orders the series by their first package only.
SeriesBeforeByPosition(c1, c2, topo_all) ==
    IndexOf(topo_all, c1[1]) <= IndexOf(topo_all, c2[1])

\* line 187: larger series first, then the earlier first package.
SeriesBefore(c1, c2, topo_all) ==
    \/ Len(c1) > Len(c2)
    \/ Len(c1) = Len(c2) /\ IndexOf(topo_all, c1[1]) <= IndexOf(topo_all, c2[1])

RECURSIVE SortSeries(_, _)
SortSeries(comps, topo_all) ==
    IF comps = {} THEN <<>>
    ELSE LET first == CHOOSE c \in comps :
                        \A d \in comps : SeriesBefore(c, d, topo_all)
         IN <<first>> \o SortSeries(comps \ {first}, topo_all)

\* debian_dep_sort.compute_series_toposort
ComputeSeriesToposort(E, target_packages, hint) ==
    LET sorted == TopoSort(E, hint, target_packages, FALSE, TRUE)
        relevant == Range(sorted.order)
    IN IF sorted.status # "ok" THEN [status |-> sorted.status, series |-> <<>>]
       ELSE [status |-> "ok",
             series |-> SortSeries({FilterSeq(sorted.order,
                                              Component(E, relevant, {n})) :
                                      n \in relevant},
                                   sorted.order)]

\* optimize lines 876-881.
RECURSIVE OptimizedOrder(_, _)
OptimizedOrder(series, optimized_order) ==
    IF series = <<>> THEN optimized_order
    ELSE OptimizedOrder(Tail(series),
                        optimized_order
                        \o FilterSeq(Head(series),
                                     Range(Head(series)) \ Range(optimized_order)))

\* optimize lines 889-901: a debian task for every ordered package that has
\* none.
RECURSIVE AddDependencyTasks(_, _, _)
AddDependencyTasks(queue, optimized_order, package_dirs) ==
    IF optimized_order = <<>> THEN queue
    ELSE LET pkg == Head(optimized_order)
             has == \E i \in 1..Len(queue) :
                       queue[i].display_name = pkg /\ queue[i].kind = "debian"
         IN AddDependencyTasks(
                IF has THEN queue
                ELSE Append(queue, BuildTask(pkg, package_dirs[pkg], "debian", <<>>)),
                Tail(optimized_order), package_dirs)

\* optimize lines 905-911: list.sort is stable.
TaskSortKey(task, packages) ==
    LET at == {i \in 1..Len(packages) : packages[i] = task.display_name}
        \* order_map keeps the last position of a repeated name
        pos == IF at = {} THEN Cardinality(Range(packages))
               ELSE (CHOOSE i \in at : \A j \in at : j <= i) - 1
    IN 2 * pos + (IF task.kind = "debian" THEN 0 ELSE 1)

RECURSIVE StableSortTasks(_, _)
StableSortTasks(tasks, packages) ==
    IF tasks = <<>> THEN <<>>
    ELSE LET k == CHOOSE i \in 1..Len(tasks) :
                    /\ \A j \in 1..Len(tasks) :
                         TaskSortKey(tasks[i], packages)
                           <= TaskSortKey(tasks[j], packages)
                    /\ \A j \in 1..(i - 1) :
                         TaskSortKey(tasks[j], packages)
                           > TaskSortKey(tasks[i], packages)
         IN <<tasks[k]>> \o StableSortTasks(RemoveAt(tasks, k), packages)

\* discover_debian_package_dirs: the directories of the queued debian tasks,
\* then the scanned directories under code_dir.
PackageDirs(st, scanned) ==
    LET debian == {i \in 1..Len(st.build_queue) :
                     st.build_queue[i].kind = "debian"}
        queued == {st.build_queue[i].display_name : i \in debian}
    IN [pkg \in queued \cup scanned |->
          IF pkg \in queued
          THEN st.build_queue[CHOOSE i \in debian :
                 /\ st.build_queue[i].display_name = pkg
                 /\ \A j \in debian :
                      st.build_queue[j].display_name = pkg => j <= i].path
          ELSE MkPath(CodeDir, pkg)]

\* optimize lines 884-912: the new package order, the added dependency
\* tasks, the sorted tasks, the save.
Reordered(st, package_dirs, optimized_order, completed_prefix) ==
    LET packages ==
            completed_prefix \o optimized_order
            \o FilterSeq(st.queue_packages,
                         Range(st.queue_packages)
                           \ (Range(optimized_order) \cup Range(completed_prefix)))
    IN SaveQueue(Store(
           StableSortTasks(AddDependencyTasks(st.build_queue, optimized_order,
                                              package_dirs),
                           packages),
           packages,
           [pkg \in DOMAIN st.package_status \cup Range(optimized_order) |->
              StatusGet(st.package_status, pkg)],
           st.queue_file, st.queue_meta_file))

\* optimize line 884.
CompletedPrefix(st) ==
    FilterSeq(st.queue_packages,
              {p \in Range(st.queue_packages) : StatusGet(st.package_status, p)})

\* optimize lines 842-846.
PendingPackages(st) ==
    FilterSeq(PackagesForKind(st, "debian"),
              {p \in Range(st.queue_packages) : ~StatusGet(st.package_status, p)})

\* optimize line 860: a repeated name keeps its last position.
OrderHint(packages) ==
    [pkg \in Range(packages) |->
       (CHOOSE i \in 1..Len(packages) :
          /\ packages[i] = pkg
          /\ \A j \in 1..Len(packages) : packages[j] = pkg => j <= i) - 1]

\* The variant of a graph without any edge.
KnownEdgesNone(deps, package_dirs) == {}

\* build_from_control_dirs: the dependencies between known directories.
KnownEdges(deps, package_dirs) ==
    {e \in deps : e[1] \in DOMAIN package_dirs /\ e[2] \in DOMAIN package_dirs}

\* optimize lines 865-887.
OptimizeSorted(st, package_dirs, result) ==
    IF result.status # "ok" THEN [st |-> st, ok |-> FALSE]
    ELSE [st |-> Reordered(st, package_dirs,
                           OptimizedOrder(result.series, <<>>),
                           CompletedPrefix(st)),
          ok |-> TRUE]

\* optimize lines 860-864.
OptimizePending(st, package_dirs, deps) ==
    OptimizeSorted(st, package_dirs,
                   ComputeSeriesToposort(KnownEdges(deps, package_dirs),
                                         Range(PendingPackages(st)),
                                         OrderHint(st.queue_packages)))

\* optimize lines 833-859.
OptimizeLoaded(st, scanned, deps) ==
    IF \A i \in 1..Len(st.build_queue) : st.build_queue[i].kind # "debian"
    THEN [st |-> st, ok |-> FALSE]
    ELSE IF PendingPackages(st) = <<>> THEN [st |-> st, ok |-> TRUE]
    ELSE OptimizePending(st, PackageDirs(st, scanned), deps)

\* optimize_debian_build_queue; returns the queue and the reported result.
OptimizeDebianBuildQueue(st, auto_mark, prebuilt, unselect, scanned, deps) ==
    OptimizeLoaded(
        LoadQueueFromFile(
            ReviewCompletedPackages(LoadQueueFromFile(st), "debian",
                                    auto_mark, prebuilt, unselect)),
        scanned, deps)

\* ---- the queue operations as steps ----
Op(op) == [NoOp EXCEPT !.op = op]

Starts(st) ==
    /\ build_queue = st.build_queue
    /\ queue_packages = st.queue_packages
    /\ package_status = st.package_status
    /\ queue_file = st.queue_file
    /\ queue_meta_file = st.queue_meta_file

Becomes(st) ==
    /\ build_queue' = st.build_queue
    /\ queue_packages' = st.queue_packages
    /\ package_status' = st.package_status
    /\ queue_file' = st.queue_file
    /\ queue_meta_file' = st.queue_meta_file

\* Tasks handed to add_tasks: the caller builds them from a directory, a
\* kind and arguments.
TaskChoices ==
    {BuildTask("a", MkPath(CodeDir, "a"), "debian", <<>>),
     BuildTask("a", MkPath(OtherDir, "a"), "debian", <<"-j4">>),
     BuildTask("a", MkPath(CodeDir, "a"), "rpm", <<>>)}

\* The lists of at most n members of S.
ListsUpTo(S, n) == UNION {[1..k -> S] : k \in 0..n}

TaskLists == ListsUpTo(TaskChoices, MaxAdd)

\* Queue files found at start-up: lines written by hand (bare names, also
\* with a directory in front) and inline records of earlier versions.
LineChoices ==
    {BareLine(n, h) :
        n \in {PlainStr("a"), PlainStr("b"), Str(OtherDir, "a")}, h \in BOOLEAN}
    \cup {InlineLine(PlainStr("a"), TRUE, "debian", EmptyStr, <<"-j4">>),
          InlineLine(PlainStr("a"), FALSE, "rpm", Str(OtherDir, "a"), <<>>)}

QueueFiles == ListsUpTo(LineChoices, MaxLines)

MetaEntries ==
    {[key |-> k, val |-> v] :
        k \in {PlainStr("a"), Str(OtherDir, "a")},
        v \in {MetaInfo(EmptyStr, <<[key |-> "rpm", val |-> <<>>]>>),
               MetaInfo(Str(OtherDir, "a"), <<>>)}}

\* A JSON object has every key once.
MetaFiles == {m \in ListsUpTo(MetaEntries, MaxMeta) : NoDup(DictKeys(m))}

\* MenuState.__post_init__: the files are ensured and loaded.
StoreInit ==
    /\ MenuVarsInit
    /\ TopoVarsInit
    /\ RunnerVarsInit
    /\ LockVarsInit
    /\ \E lines \in QueueFiles, meta \in MetaFiles :
         Starts(LoadQueueFromFile(Store(<<>>, <<>>, <<>>, lines, meta)))
    /\ last_op = Op("init")

LoadQueueStep ==
    /\ Becomes(LoadQueueFromFile(Current))
    /\ last_op' = Op("load_queue_from_file")
    /\ UNCHANGED outsideStore

SaveQueueStep ==
    /\ Becomes(SaveQueue(Current))
    /\ last_op' = Op("save_queue")
    /\ UNCHANGED outsideStore

ClearQueueStep ==
    /\ Becomes(ClearQueue(Current))
    /\ last_op' = Op("clear_queue")
    /\ UNCHANGED outsideStore

AddTasksStep ==
    /\ \E tasks \in TaskLists, reset_completed \in BOOLEAN :
         LET r == AddTasks(Current, tasks, reset_completed)
         IN /\ Becomes(r.st)
            /\ last_op' = [Op("add_tasks") EXCEPT
                             !.tasks = tasks,
                             !.reset = reset_completed,
                             !.added = r.added,
                             !.repeat = /\ last_op.op = "add_tasks"
                                        /\ last_op.tasks = tasks
                                        /\ last_op.reset = reset_completed]
    /\ UNCHANGED outsideStore

RemovePackageStep ==
    /\ \E i \in 1..Len(queue_packages) : Becomes(RemovePackage(Current, i))
    /\ last_op' = Op("remove")
    /\ UNCHANGED outsideStore

RecordBuildStep ==
    /\ \E pkg \in {p \in Range(PackagesForKind(Current, "debian")) :
                       ~StatusGet(package_status, p)},
          built \in BOOLEAN :
         Becomes(RecordBuild(Current, pkg, built))
    /\ last_op' = Op("build")
    /\ UNCHANGED outsideStore

\* The answers given to review_completed_packages: both questions declined,
\* the first accepted (with a .deb found next to a), or the second accepted
\* and a picked.
ReviewChoices ==
    {[auto_mark |-> FALSE, prebuilt |-> {}, unselect |-> {}],
     [auto_mark |-> TRUE, prebuilt |-> {"a"}, unselect |-> {}],
     [auto_mark |-> FALSE, prebuilt |-> {}, unselect |-> {"a"}]}

OptimizeStep ==
    /\ \E review \in ReviewChoices,
          deps \in SUBSET {<<"a", "b">>, <<"b", "a">>} :
         LET r == OptimizeDebianBuildQueue(Current, review.auto_mark,
                                           review.prebuilt, review.unselect,
                                           StoreNames, deps)
         IN /\ Becomes(r.st)
            /\ last_op' = Op("optimize")
    /\ UNCHANGED outsideStore

StoreNext ==
    \/ LoadQueueStep
    \/ SaveQueueStep
    \/ ClearQueueStep
    \/ AddTasksStep
    \/ RemovePackageStep
    \/ RecordBuildStep
    \/ OptimizeStep

StoreSpec == StoreInit /\ [][StoreNext]_vars

(***************************************************************************)
(* Claims about the queue store                                            *)
(***************************************************************************)
\* What a queue is compared by: the ordered package list, the completion
\* flag of every listed package, and the set of (package, kind, extra_args).
QueueView(st) ==
    [packages |-> st.queue_packages,
     flags |-> [p \in Range(st.queue_packages) |->
                  StatusGet(st.package_status, p)],
     tasks |-> {<<st.build_queue[i].display_name, st.build_queue[i].kind,
                  st.build_queue[i].extra_args>> :
                  i \in 1..Len(st.build_queue)}]

\* C8: from every queue reachable through the queue operations, save_queue
\* leaves the ordered package list, the completion flags and the set of
\* (package, kind, extra_args) as they are, and a load_queue_from_file that
\* follows the save reproduces them again.
C8_SaveThenLoadReproduces ==
    /\ [][SaveQueueStep => QueueView(Current)' = QueueView(Current)]_vars
    /\ [][(last_op.op = "save_queue" /\ LoadQueueStep)
            => QueueView(Current)' = QueueView(Current)]_vars

\* C9: after every queue operation no two tasks in memory have the same
\* package name (as displayed and as the directory name) and kind, and the
\* metadata map has every package once and every kind once per package.
C9_OneTaskPerPackageAndKind ==
    /\ \A i, j \in 1..Len(build_queue) :
         /\ (/\ build_queue[i].display_name = build_queue[j].display_name
             /\ build_queue[i].kind = build_queue[j].kind) => i = j
         /\ TaskKey(build_queue[i]) = TaskKey(build_queue[j]) => i = j
    /\ NoDup(DictKeys(queue_meta_file))
    /\ \A i \in 1..Len(queue_meta_file) :
         NoDup(DictKeys(queue_meta_file[i].val.kinds))

\* A task was added whose package and kind were queued already, and the
\* queue holds tasks of two kinds.
C9_Witness ==
    /\ last_op.op = "add_tasks"
    /\ last_op.added < Len(last_op.tasks)
    /\ Len(build_queue) >= 2
    /\ Len(queue_meta_file) >= 1

\* C10: an add_tasks call that repeats the call just before it (same task
\* list, same reset_completed) changes nothing in the queue, in memory or in
\* the two files, and returns zero newly added tasks.
C10_AddTasksTwiceSame ==
    [][(last_op'.op = "add_tasks" /\ last_op'.repeat)
         => (Current' = Current /\ last_op'.added = 0)]_vars

\* A list of two tasks was added twice in a row.
C10_Witness ==
    /\ last_op.op = "add_tasks"
    /\ last_op.repeat
    /\ Len(last_op.tasks) = 2
    /\ last_op.tasks[1] # last_op.tasks[2]
    /\ Len(build_queue) >= 2

(***************************************************************************)
(* The file writes of a save, step by step, next to an external reader     *)
(***************************************************************************)
\* The two files of a queue.
Disk(st) == <<st.queue_file, st.queue_meta_file>>

\* The fields of MenuState take the values of st; the files stay.
Holds(st) ==
    /\ build_queue' = st.build_queue
    /\ queue_packages' = st.queue_packages
    /\ package_status' = st.package_status

\* A save begins: from here on the writes of lines 519-520 (save_queue) or
\* 527-528 (clear_queue) follow one by one.
BeginWrites(st) ==
    /\ writer = "idle"
    /\ writer' = "truncate_queue"
    /\ target' = st
    /\ pre_disk' = <<queue_file, queue_meta_file>>
    /\ observed' = NoRead

\* save_queue lines 493-518: the fields are replaced before the files are
\* written.
BeginSaveQueue ==
    /\ run.pc = "none"
    /\ BeginWrites(SaveQueue(Current))
    /\ Holds(SaveQueue(Current))
    /\ UNCHANGED <<queue_file, queue_meta_file, last_op, run>>
    /\ UNCHANGED outsideMenu

\* add_tasks lines 534-559, up to the writes of its save_queue.
BeginAddTasks ==
    /\ run.pc = "none"
    /\ \E tasks \in TaskLists \ {<<>>}, reset_completed \in BOOLEAN :
         /\ BeginWrites(AddTasks(Current, tasks, reset_completed).st)
         /\ Holds(AddTasks(Current, tasks, reset_completed).st)
    /\ UNCHANGED <<queue_file, queue_meta_file, last_op, run>>
    /\ UNCHANGED outsideMenu

\* clear_queue lines 526-528: the fields are emptied after the writes.
BeginClearQueue ==
    /\ run.pc = "none"
    /\ BeginWrites(ClearQueue(Current))
    /\ UNCHANGED <<storeVars, run>>
    /\ UNCHANGED outsideMenu

\* _write_queue_file line 566 (clear_queue line 527): open(..., "w") empties
\* the queue file.
TruncateQueueFile ==
    /\ writer = "truncate_queue"
    /\ writer' = "write_queue"
    /\ queue_file' = <<>>
    /\ UNCHANGED <<build_queue, queue_packages, package_status,
                   queue_meta_file, last_op, target, pre_disk, observed, run>>
    /\ UNCHANGED outsideMenu

\* _write_queue_file lines 567-569: the lines reach the file when it is
\* closed.
WriteQueueLines ==
    /\ writer = "write_queue"
    /\ writer' = "truncate_meta"
    /\ queue_file' = target.queue_file
    /\ UNCHANGED <<build_queue, queue_packages, package_status,
                   queue_meta_file, last_op, target, pre_disk, observed, run>>
    /\ UNCHANGED outsideMenu

\* _write_meta_from_tasks line 579 (clear_queue line 528): write_text opens
\* the metadata file for writing, which empties it.
TruncateMetaFile ==
    /\ writer = "truncate_meta"
    /\ writer' = "write_meta"
    /\ queue_meta_file' = <<>>
    /\ UNCHANGED <<build_queue, queue_packages, package_status, queue_file,
                   last_op, target, pre_disk, observed, run>>
    /\ UNCHANGED outsideMenu

\* line 579 (528): the JSON text is written and the file closed; clear_queue
\* empties the fields after it (lines 529-531).
WriteMetaFile ==
    /\ writer = "write_meta"
    /\ writer' = "done"
    /\ queue_meta_file' = target.queue_meta_file
    /\ Holds(target)
    /\ UNCHANGED <<queue_file, last_op, target, pre_disk, observed, run>>
    /\ UNCHANGED outsideMenu

\* The operation returns to the menu.
OperationReturns ==
    /\ writer = "done"
    /\ run.pc = "none"
    /\ writer' = "idle"
    /\ UNCHANGED <<storeVars, target, pre_disk, observed, run>>
    /\ UNCHANGED outsideMenu

\* Another process reads both files while the operation is under way.
ReaderReads ==
    /\ writer # "idle"
    /\ observed = NoRead
    /\ observed' = <<queue_file, queue_meta_file>>
    /\ UNCHANGED <<storeVars, writer, target, pre_disk, run>>
    /\ UNCHANGED outsideMenu

WriterNext ==
    \/ TruncateQueueFile
    \/ WriteQueueLines
    \/ TruncateMetaFile
    \/ WriteMetaFile

PersistNext ==
    \/ BeginSaveQueue
    \/ BeginAddTasks
    \/ BeginClearQueue
    \/ WriterNext
    \/ OperationReturns
    \/ ReaderReads

PersistSpec == StoreInit /\ [][PersistNext]_vars

\* C11: whatever an external reader reads while a mutating queue operation
\* runs is the pair of files as it was before the operation or the pair as
\* it is after it.
C11_ReaderSeesPreOrPost ==
    observed # NoRead => observed \in {pre_disk, Disk(target)}

(***************************************************************************)
(* manage_build_queue: executing the queue                                 *)
(***************************************************************************)
\* any(t.display_name == pkg and t.kind == kind for t in state.build_queue)
HasTask(st, pkg, kind) ==
    \E i \in 1..Len(st.build_queue) :
        /\ st.build_queue[i].display_name = pkg
        /\ st.build_queue[i].kind = kind

\* lines 1474-1479 (debian) and 1502-1506 (rpm)
Pending(st, target_kind) ==
    LET Wanted(pkg) ==
            IF target_kind = "debian"
            THEN ~StatusGet(st.package_status, pkg) /\ HasTask(st, pkg, "debian")
            ELSE HasTask(st, pkg, "rpm")
    IN SelectSeq(st.queue_packages, Wanted)

\* lines 1517-1528: the package of the snapshot is built, not skipped.
Built(st, r, pkg) ==
    /\ pkg \in Range(r.pending)
    /\ HasTask(st, pkg, r.kind)
    /\ ~(r.kind = "debian" /\ StatusGet(st.package_status, pkg))

\* line 1516: the first position from pos on whose package is built, the
\* length of the snapshot plus one when there is none.
RECURSIVE NextPos(_, _, _)
NextPos(st, r, pos) ==
    IF pos > Len(r.snapshot) THEN pos
    ELSE IF Built(st, r, r.snapshot[pos]) THEN pos
    ELSE NextPos(st, r, pos + 1)

\* A loop that flags the package whatever the result of its build.
FlaggedWhateverResult(st, target_kind, pkg, flag) ==
    IF target_kind = "debian"
    THEN [st EXCEPT !.package_status = StatusSet(@, pkg, TRUE)]
    ELSE st

\* lines 1547-1549 and 1542-1543: only a debian build changes the flag.
Flagged(st, target_kind, pkg, flag) ==
    IF target_kind = "debian"
    THEN [st EXCEPT !.package_status = StatusSet(@, pkg, flag)]
    ELSE st

\* lines 1390, 1440-1514: the queue is loaded and reviewed, a kind is chosen
\* and the packages to build are listed.
StartExecution ==
    /\ run.pc = "none"
    /\ writer = "idle"
    /\ LoadQueueFromFile(Current).queue_packages # <<>>
    /\ \E target_kind \in Kinds, c \in ReviewChoices :
         /\ Pending(ReviewCompletedPackages(LoadQueueFromFile(Current),
                        target_kind, c.auto_mark, c.prebuilt, c.unselect),
                    target_kind) # <<>>
         /\ Becomes(ReviewCompletedPackages(LoadQueueFromFile(Current),
                        target_kind, c.auto_mark, c.prebuilt, c.unselect))
         /\ run' = [NoRun EXCEPT !.pc = "loop", !.kind = target_kind, !.pos = 1]
    /\ UNCHANGED <<last_op, writer, target, pre_disk, observed>>
    /\ UNCHANGED outsideMenu

\* lines 1454-1459 / 1502-1506 and 1512-1514, on the reviewed queue.
ListPending ==
    /\ run.pc = "loop"
    /\ run.snapshot = <<>>
    /\ run' = [run EXCEPT !.pending = Pending(Current, run.kind),
                          !.snapshot = queue_packages,
                          !.saved = Disk(Current)]
    /\ UNCHANGED <<storeVars, writer, target, pre_disk, observed>>
    /\ UNCHANGED outsideMenu

\* lines 1516-1530: the next package that is not skipped is started.
StartPackage ==
    /\ run.pc = "loop"
    /\ run.snapshot # <<>>
    /\ NextPos(Current, run, run.pos) <= Len(run.snapshot)
    /\ run' = [run EXCEPT
                 !.pc = "building",
                 !.pos = NextPos(Current, run, run.pos),
                 !.started =
                     Append(@, run.snapshot[NextPos(Current, run, run.pos)])]
    /\ UNCHANGED <<storeVars, writer, target, pre_disk, observed>>
    /\ UNCHANGED outsideMenu

\* lines 1530-1539, 1547-1550: every task of the package succeeded.
PackageSucceeds ==
    /\ run.pc = "building"
    /\ BeginWrites(SaveQueue(Flagged(Current, run.kind,
                                     run.snapshot[run.pos], TRUE)))
    /\ Holds(SaveQueue(Flagged(Current, run.kind,
                               run.snapshot[run.pos], TRUE)))
    /\ run' = [run EXCEPT !.pc = "saving",
                          !.succeeded = Append(@, run.snapshot[run.pos])]
    /\ UNCHANGED <<queue_file, queue_meta_file, last_op>>
    /\ UNCHANGED outsideMenu

\* lines 1540-1544, 1550: a task failed and the user continues.
PackageFailsContinue ==
    /\ run.pc = "building"
    /\ BeginWrites(SaveQueue(Flagged(Current, run.kind,
                                     run.snapshot[run.pos], FALSE)))
    /\ Holds(SaveQueue(Flagged(Current, run.kind,
                               run.snapshot[run.pos], FALSE)))
    /\ run' = [run EXCEPT !.pc = "saving",
                          !.failed = Append(@, run.snapshot[run.pos])]
    /\ UNCHANGED <<queue_file, queue_meta_file, last_op>>
    /\ UNCHANGED outsideMenu

\* lines 1540-1546: a task failed and the user stops; the loop is left
\* before save_queue.
PackageFailsStop ==
    /\ run.pc = "building"
    /\ Holds(Flagged(Current, run.kind, run.snapshot[run.pos], FALSE))
    /\ run' = [run EXCEPT !.pc = "finished", !.report = "failed",
                          !.failed = Append(@, run.snapshot[run.pos])]
    /\ UNCHANGED <<queue_file, queue_meta_file, last_op,
                   writer, target, pre_disk, observed>>
    /\ UNCHANGED outsideMenu

\* lines 519-520 inside the loop: the writes of save_queue.
SaveWrites ==
    /\ run.pc = "saving"
    /\ WriterNext

\* line 1550 returns: the loop goes to the next package of the snapshot.
SaveReturns ==
    /\ run.pc = "saving"
    /\ writer = "done"
    /\ writer' = "idle"
    /\ run' = [run EXCEPT !.pc = "loop", !.pos = @ + 1,
                          !.saved = Disk(Current)]
    /\ UNCHANGED <<storeVars, target, pre_disk, observed>>
    /\ UNCHANGED outsideMenu

\* lines 1516, 1555-1560: the snapshot is exhausted.
EndOfQueue ==
    /\ run.pc = "loop"
    /\ run.snapshot # <<>>
    /\ NextPos(Current, run, run.pos) > Len(run.snapshot)
    /\ run' = [run EXCEPT
                 !.pc = "finished",
                 !.report = IF run.failed # <<>> THEN "failed"
                            ELSE IF run.kind = "debian" THEN "built" ELSE ""]
    /\ UNCHANGED <<storeVars, writer, target, pre_disk, observed>>
    /\ UNCHANGED outsideMenu

\* lines 1551-1553: KeyboardInterrupt is raised wherever the loop is, a
\* build or a write of save_queue included, and the run reports the pause.
Interrupt ==
    /\ run.pc \in {"loop", "building", "saving"}
    /\ run.snapshot # <<>>
    /\ run' = [run EXCEPT !.pc = "paused", !.report = "paused"]
    /\ UNCHANGED <<storeVars, writer, target, pre_disk, observed>>
    /\ UNCHANGED outsideMenu

ExecNext ==
    \/ StartExecution
    \/ ListPending
    \/ StartPackage
    \/ PackageSucceeds
    \/ PackageFailsContinue
    \/ PackageFailsStop
    \/ SaveWrites
    \/ SaveReturns
    \/ EndOfQueue
    \/ Interrupt

ExecSpec == StoreInit /\ [][ExecNext]_vars

\* The names flagged complete in a queue file.
CompletedOnDisk(lines) ==
    {lines[i].name.base : i \in {j \in 1..Len(lines) : lines[j].completed}}

\* C12: after an interrupt during the execution of the queue the run reports
\* paused, and the two files are those of the last completed save (of the
\* save under way, if that one already wrote everything): no completion
\* saved before is lost.
C12_InterruptKeepsSavedQueue ==
    run.pc = "paused" =>
        /\ run.report = "paused"
        /\ Disk(Current) \in
               {run.saved} \cup
               (IF writer = "idle" THEN {} ELSE {Disk(target)})
        /\ CompletedOnDisk(run.saved[1]) \subseteq CompletedOnDisk(queue_file)

\* C13: for debian and for rpm, once the save after a successful package
\* has returned (so before the next pending package is started) the package
\* is flagged complete in memory and in the queue file, and the packages are
\* started in the order of the queue.
C13_SuccessMarkedAndSavedInOrder ==
    /\ run.pc \in {"loop", "building", "finished"} =>
         \A p \in Range(run.succeeded) :
             /\ StatusGet(package_status, p)
             /\ p \in CompletedOnDisk(queue_file)
    /\ \A i, j \in 1..Len(run.started) :
         i < j => IndexOf(run.snapshot, run.started[i])
                      < IndexOf(run.snapshot, run.started[j])

(***************************************************************************)
(* compute_series_toposort                                                 *)
(***************************************************************************)
\* A graph of seven packages in two parts that share no edge: a and b, and
\* c to g.  The part of two holds the first names.
ExampleEdges ==
    {<<"a", "b">>,
     <<"c", "d">>, <<"c", "e">>, <<"d", "f">>, <<"e", "f">>, <<"f", "g">>}
ExampleTargets == {"b", "g"}

SeriesInit ==
    /\ MenuVarsInit
    /\ RunnerVarsInit
    /\ LockVarsInit
    /\ StoreVarsInit
    /\ \/ /\ adj \in {E \in SUBSET EdgeUniverse : Cardinality(E) <= MaxEdges}
          /\ subset \in SubsetChoices
       \/ /\ adj = ExampleEdges
          /\ subset = ExampleTargets
    /\ order_hint \in HintChoices
    /\ subset_none = FALSE
    /\ include_dependencies = TRUE
    /\ topo = NotCalled
    /\ series_out = NoSeries
    /\ GraphVarsInit

\* One call compute_series_toposort(package_dirs, target_packages,
\* order_hint); topo keeps topo_all of line 150.
ComputeSeriesCall ==
    /\ series_out.status = "none"
    /\ topo' = TopoSort(adj, order_hint, subset, FALSE, TRUE)
    /\ series_out' = ComputeSeriesToposort(adj, subset, order_hint)
    /\ UNCHANGED <<adj, order_hint, subset, subset_none, include_dependencies,
                   graphVars>>
    /\ UNCHANGED outsideTopo

SeriesNext == ComputeSeriesCall

SeriesSpec == SeriesInit /\ [][SeriesNext]_vars

\* The pairs joined by a chain of pairs of R.
RECURSIVE TransClosure(_)
TransClosure(R) ==
    LET R2 == R \cup {<<r[1][1], r[2][2]>> :
                         r \in {q \in R \X R : q[1][2] = q[2][1]}}
    IN IF R2 = R THEN R ELSE TransClosure(R2)

\* The dependency edges between packages of W, taken in both directions.
EitherWay(E, W) ==
    {e \in E : e[1] \in W /\ e[2] \in W}
    \cup {<<e[2], e[1]>> : e \in {x \in E : x[1] \in W /\ x[2] \in W}}

\* The series that hold package n.
SeriesWith(n) ==
    {i \in 1..Len(series_out.series) : n \in Range(series_out.series[i])}

\* C14: the series of compute_series_toposort split the topological order of
\* the targets and their prerequisites: every such package is in one series,
\* once; two packages are in the same series exactly when a chain of
\* dependency edges, in either direction and inside that set, joins them;
\* and in a series every package comes after its prerequisites.
C14_SeriesPartitionByConnection ==
    series_out.status = "ok" =>
        /\ topo.status = "ok"
        /\ Range(topo.order) = RequestedClosure
        /\ \A n \in RequestedClosure : Cardinality(SeriesWith(n)) = 1
        /\ \A i \in 1..Len(series_out.series) :
             /\ series_out.series[i] # <<>>
             /\ NoDup(series_out.series[i])
             /\ Range(series_out.series[i]) \subseteq RequestedClosure
             /\ series_out.series[i] =
                    FilterSeq(topo.order, Range(series_out.series[i]))
             /\ \A e \in adj :
                  (e[1] \in Range(series_out.series[i])
                   /\ e[2] \in Range(series_out.series[i]))
                  => Before(series_out.series[i], e[1], e[2])
        /\ \A x, y \in RequestedClosure :
             x # y =>
               ((SeriesWith(x) = SeriesWith(y))
                <=> <<x, y>> \in TransClosure(EitherWay(adj, RequestedClosure)))

\* Two series of two packages each, from two targets with one prerequisite
\* each.
C14_Witness ==
    /\ series_out.status = "ok"
    /\ Len(series_out.series) = 2
    /\ Len(series_out.series[1]) = 2
    /\ Len(series_out.series[2]) = 2
    /\ Cardinality(subset) = 2

\* C15: the series come largest first, series of one size by the position
\* of their first package in the topological order; the graph of seven
\* packages in two parts of five and two gives two series, the one of five
\* first.
C15_SeriesLargestFirst ==
    series_out.status = "ok" =>
        /\ \A i, j \in 1..Len(series_out.series) :
             i < j =>
               \/ Len(series_out.series[i]) > Len(series_out.series[j])
               \/ /\ Len(series_out.series[i]) = Len(series_out.series[j])
                  /\ Before(topo.order, series_out.series[i][1],
                            series_out.series[j][1])
        /\ (adj = ExampleEdges /\ subset = ExampleTargets) =>
             /\ Len(series_out.series) = 2
             /\ Range(series_out.series[1]) = {"c", "d", "e", "f", "g"}
             /\ series_out.series[2] = <<"a", "b">>

\* The call on the graph of seven packages; the part of two comes first in
\* the topological order.
C15_Witness ==
    /\ series_out.status = "ok"
    /\ adj = ExampleEdges
    /\ subset = ExampleTargets
    /\ topo.order[1] = "a"
    /\ Len(series_out.series[1]) = 5

\* C16: between two packages of different series there is no chain of
\* dependencies, from either one to the other, in the whole graph, packages
\* outside the result included.
C16_NoPathBetweenSeries ==
    series_out.status = "ok" =>
        \A x, y \in Range(topo.order) :
            SeriesWith(x) # SeriesWith(y) =>
                /\ <<x, y>> \notin TransClosure(adj)
                /\ <<y, x>> \notin TransClosure(adj)

\* Two packages of different series with a common dependent outside the
\* result.
C16_Witness ==
    /\ series_out.status = "ok"
    /\ \E x, y \in Range(topo.order), z \in Nodes \ Range(topo.order) :
         /\ SeriesWith(x) # SeriesWith(y)
         /\ <<x, z>> \in adj
         /\ <<y, z>> \in adj

(***************************************************************************)
(* build_from_control_dirs and _parse_depends                              *)
(***************************************************************************)
\* A field value is a list of atoms: a maximal run of the characters of
\* pkgname_re other than ":" (a name, a version, an architecture), or one of
\* the marks below.
Marks == {",", "|", "(", ")", "[", "]", "{", "}", ":", " ", ">=", "$"}

\* str.split(sep): the parts between the occurrences of sep.
RECURSIVE SplitOn(_, _, _)
SplitOn(value, sep, part) ==
    IF value = <<>> THEN <<part>>
    ELSE IF Head(value) = sep
         THEN <<part>> \o SplitOn(Tail(value), sep, <<>>)
         ELSE SplitOn(Tail(value), sep, Append(part, Head(value)))

\* str.strip()
RECURSIVE Strip(_)
Strip(token) ==
    IF token = <<>> THEN <<>>
    ELSE IF Head(token) = " " THEN Strip(Tail(token))
    ELSE IF token[Len(token)] = " "
         THEN Strip(SubSeq(token, 1, Len(token) - 1))
    ELSE token

\* token.split(mark)[0].strip()
CutAt(token, mark) == Strip(SplitOn(token, mark, <<>>)[1])

\* The variant that takes the last alternative of "x | y".
LastAlternative(part) ==
    Strip(SplitOn(part, "|", <<>>)[Len(SplitOn(part, "|", <<>>))])

\* _parse_depends line 242
FirstAlternative(part) == CutAt(part, "|")

\* lines 243-247
BareToken(part) ==
    CutAt(CutAt(CutAt(CutAt(FirstAlternative(part), "("), "["), "{"), ":")

\* lines 248-251: pkgname_re.match takes the run of name characters the
\* token begins with.
RECURSIVE MatchedNames(_)
MatchedNames(parts) ==
    IF parts = <<>> THEN <<>>
    ELSE (IF BareToken(Head(parts)) # <<>>
              /\ BareToken(Head(parts))[1] \notin Marks
          THEN <<BareToken(Head(parts))[1]>>
          ELSE <<>>)
         \o MatchedNames(Tail(parts))

\* debian_dep_sort._parse_depends
ParseDepends(value) == MatchedNames(SplitOn(value, ",", <<>>))

\* build_from_control_dirs lines 30-35
DependsFields ==
    {"Depends", "Build-Depends", "Build-Depends-Indep", "Build-Depends-Arch"}

\* lines 45-50: the names in the dependency fields of the stanzas of pkg.
DepsOf(files, pkg) ==
    UNION {Range(ParseDepends(files[pkg][i][f])) :
             <<i, f>> \in {x \in (1..Len(files[pkg])) \X DependsFields :
                             x[2] \in DOMAIN files[pkg][x[1]]
                             /\ files[pkg][x[1]][x[2]] # <<>>}}

\* lines 51-52: edges <<prerequisite, dependent>> between known packages.
BuiltEdges(files) ==
    {e \in (DOMAIN files) \X (DOMAIN files) :
        e[1] # e[2] /\ e[1] \in DepsOf(files, e[2])}

\* The variant that records no unresolved name.
BuiltUnresolvedDropped(files) ==
    [pkg \in DOMAIN files |-> {}]

\* lines 53-54
BuiltUnresolved(files) ==
    [pkg \in DOMAIN files |-> DepsOf(files, pkg) \ DOMAIN files]

\* Field values: "b, c (>= 1.0)", "b | d", "d | b", "a:any, c [amd64]",
\* "${misc:Depends}, b", "ven:b".
FieldValues ==
    {<<"b", ",", " ", "c", " ", "(", ">=", " ", "1.0", ")">>,
     <<"b", " ", "|", " ", "d">>,
     <<"d", " ", "|", " ", "b">>,
     <<"a", ":", "any", ",", " ", "c", " ", "[", "amd64", "]">>,
     <<"$", "{", "misc", ":", "Depends", "}", ",", " ", "b">>,
     <<"ven", ":", "b">>}

\* Control files: none (or one without dependency fields), or one stanza
\* with one field.
ControlChoices ==
    {<<>>}
    \cup {<<[f \in {field} |-> v]>> :
            field \in {"Depends", "Build-Depends", "Recommends"},
            v \in FieldValues}

\* The known packages of the graphs built from control files.
ControlPackages == {"a", "b", "c"}

\* a: Depends: b, c (>= 1.0);  b: nothing;  c: Build-Depends: b | d.
ExampleControl ==
    [pkg \in ControlPackages |->
        CASE pkg = "a" ->
               <<[f \in {"Depends"} |->
                    <<"b", ",", " ", "c", " ", "(", ">=", " ", "1.0", ")">>]>>
          [] pkg = "b" -> <<>>
          [] OTHER ->
               <<[f \in {"Build-Depends"} |-> <<"b", " ", "|", " ", "d">>]>>]

GraphInit ==
    /\ MenuVarsInit
    /\ RunnerVarsInit
    /\ LockVarsInit
    /\ StoreVarsInit
    /\ control_files \in [ControlPackages -> ControlChoices]
    /\ unresolved = <<>>
    /\ gpc = "new"
    /\ adj = {}
    /\ order_hint = <<>>
    /\ subset_none = FALSE
    /\ subset \in {{p} : p \in ControlPackages}
    /\ include_dependencies = FALSE
    /\ topo = NotCalled
    /\ series_out = NoSeries

\* graph.build_from_control_dirs()
BuildFromControlDirs ==
    /\ gpc = "new"
    /\ gpc' = "built"
    /\ adj' = BuiltEdges(control_files)
    /\ unresolved' = BuiltUnresolved(control_files)
    /\ UNCHANGED <<order_hint, subset, subset_none, include_dependencies, topo,
                   series_out, control_files>>
    /\ UNCHANGED outsideTopo

\* graph.topo_sort(subset, include_dependencies=incl) on the built graph.
SortBuiltGraph ==
    /\ gpc = "built"
    /\ gpc' = "sorted"
    /\ \E incl \in BOOLEAN :
         /\ include_dependencies' = incl
         /\ topo' = TopoSort(adj, order_hint, subset, FALSE, incl)
    /\ UNCHANGED <<adj, order_hint, subset, subset_none, series_out,
                   control_files, unresolved>>
    /\ UNCHANGED outsideTopo

GraphNext ==
    \/ BuildFromControlDirs
    \/ SortBuiltGraph

GraphSpec == GraphInit /\ [][GraphNext]_vars

\* C17: from the control files of a (Depends: b, c (>= 1.0)), b (nothing)
\* and c (Build-Depends: b | d), with a, b and c the known packages, the
\* graph has exactly the edges b before a, c before a and b before c, and
\* topo_sort([a], include_dependencies=True) returns [b, c, a].
C17_ExampleGraphAndOrder ==
    (control_files = ExampleControl /\ gpc \in {"built", "sorted"}) =>
        /\ adj = {<<"b", "a">>, <<"c", "a">>, <<"b", "c">>}
        /\ (gpc = "sorted" /\ subset = {"a"} /\ include_dependencies)
           => topo = [status |-> "ok", order |-> <<"b", "c", "a">>,
                      remaining |-> {}]

\* The example after its call of topo_sort; the alternative d was never
\* looked at, so c has no unresolved dependency.
C17_Witness ==
    /\ control_files = ExampleControl
    /\ gpc = "sorted"
    /\ subset = {"a"}
    /\ include_dependencies
    /\ topo.status = "ok"
    /\ unresolved["c"] = {}

(***************************************************************************)
(* Further claims about run_with_lock_retries                              *)
(***************************************************************************)
\* The step is a recovery: _terminate_processes was called and the repair
\* commands were run (lines 388-391).
Recovers == repair_commands' > repair_commands

\* C18: every recovery (termination of the holders, then the repair
\* commands) is followed by another execution of the command: the step that
\* recovers takes the loop back to the command, and no process is signalled
\* by a step that leaves the loop.
C18_RecoveryThenRetry ==
    [][(Recovers \/ signalled' # signalled) => lpc' = "run"]_vars

\* C19: a retry after a recovery adds exactly one to attempts, a retry after
\* a successful wait leaves attempts as it is, and attempts never exceeds
\* max_retries (taken as not negative), so at most max_retries executions
\* follow a recovery.
C19_RetryCounter ==
    /\ [][(lpc = "handle" /\ lpc' = "run") =>
            attempts' = IF Recovers THEN attempts + 1 ELSE attempts]_vars
    /\ [][lpc' # "run" => attempts' = attempts]_vars
    /\ [](effective_max >= 0 => attempts <= effective_max)

\* Two retries after recoveries and one after a wait: four executions due,
\* two credits used.
C19_Witness ==
    /\ lpc = "run"
    /\ attempts = 2
    /\ effective_max = 2
    /\ executions = 3
    /\ repair_commands = 2 * RepairCommandsPerRecovery

\* C20: when the call gives up, what it hands back is the result of the last
\* execution of the command, unchanged by the handling of the lock: raised
\* when check is set, returned otherwise; a result with exit code 0 is
\* returned only after an execution that exited with 0.
C20_LastFailureHandedBack ==
    /\ [][(lpc = "handle" /\ lpc' = "done") =>
            (/\ proc' = proc
             /\ proc.returncode # 0
             /\ outcome' = IF check THEN "raised" ELSE "returned")]_vars
    /\ []((lpc = "done" /\ outcome = "returned" /\ proc.returncode = 0)
            => executions >= 1)
    /\ []((lpc = "done" /\ outcome = "raised") => proc.returncode # 0)

\* A call without check that gave up after one recovery: the second failure
\* is returned.
C20_Witness ==
    /\ lpc = "done"
    /\ ~check
    /\ outcome = "returned"
    /\ proc.returncode = 100
    /\ executions = 2
    /\ attempts = 1
    /\ effective_max = 1

\* C21: a failure whose output names the process that holds the lock is
\* handled as lock contention, known phrase or not: with auto-recovery on
\* and a retry credit left the command is tried again, and when the recovery
\* runs, the named holder is among the processes that are signalled.
C21_NamedHolderRecognised ==
    [][(/\ lpc = "handle"
        /\ proc.named_pids # {}
        /\ AUTO_KILL_LOCK_HOLDERS
        /\ attempts < effective_max)
       => /\ lpc' = "run"
          /\ Recovers =>
               (proc.named_pids \ {OwnPid, ParentPid}) \subseteq signalled']_vars

(***************************************************************************)
(* debuild_runner: run_queue_mode (the queue file around the loop)         *)
(***************************************************************************)
\* The text of an entry name; the names of queue entries carry no prefix.
FileName(n) == n[2]

\* debuild_runner.load_queue
RECURSIVE LoadQueue(_, _)
LoadQueue(lines, include_completed) ==
    IF lines = <<>> THEN <<>>
    ELSE (IF /\ ParsesAsEntry(Head(lines))
             /\ (Head(lines).form = "inline" => Head(lines).kind = "debian")
             /\ ~(Head(lines).completed /\ ~include_completed)
          THEN <<QueueEntry(Bare(PathName(Head(lines).name)))>>
          ELSE <<>>)
         \o LoadQueue(Tail(lines), include_completed)

\* Queue files given to run_queue_mode: bare lines for x and y, every
\* package at most once, with or without the completion mark (z is found
\* as a source directory only).
RunnerQueueFiles ==
    {f \in UNION {[1..n -> {BareLine(PlainStr(b), h) :
                               b \in {"x", "y"}, h \in BOOLEAN}] :
                    n \in 0..MaxQueue} :
        \A i, j \in 1..Len(f) : f[i].name = f[j].name => i = j}

\* run_queue_mode lines 1108-1117: the queue as load_queue returns it.
QueueModeInit ==
    /\ MenuVarsInit
    /\ TopoVarsInit
    /\ LockVarsInit
    /\ build_queue = <<>>
    /\ queue_packages = <<>>
    /\ package_status = <<>>
    /\ queue_meta_file = <<>>
    /\ last_op = NoOp
    /\ queue_file \in RunnerQueueFiles
    /\ \E include_completed \in BOOLEAN :
         entries = LoadQueue(queue_file, include_completed)
    /\ idx = 1
    /\ built_successfully = <<>>
    /\ completed_names = {}
    /\ rpc = "loop"
    /\ srcDirs \in SrcDirChoices
    /\ install_artifacts = FALSE
    /\ hist = <<>>
    /\ awaiting = [n \in BareNames |-> {}]

\* lines 1041 (false) and 1098-1099: the loop ends and mark_completed
\* writes the marks of the packages built.
FinishQueueRun ==
    /\ rpc = "loop"
    /\ idx > Len(entries)
    /\ rpc' = "done"
    /\ queue_file' =
           IF built_successfully = <<>> THEN queue_file
           ELSE MarkCompleted(queue_file,
                              {FileName(n) : n \in Range(built_successfully)})
    /\ UNCHANGED <<entries, idx, built_successfully, completed_names,
                   srcDirs, install_artifacts, hist, awaiting>>
    /\ UNCHANGED <<build_queue, queue_packages, package_status,
                   queue_meta_file, last_op>>
    /\ UNCHANGED <<topoVars, lockVars, menuVars>>

QueueModeNext == SkipEntry \/ BuildSucceeds \/ BuildFails \/ FinishQueueRun

QueueModeSpec == QueueModeInit /\ [][QueueModeNext]_vars

\* A dependency, as its list of candidates, has a candidate one of whose
\* name variants is in the set.
NamedIn(dep, names) ==
    \E i \in 1..Len(dep) : Range(StripKnownPrefix(dep[i])) \cap names # {}

\* The packages complete at this point of the run: built in this run, or
\* marked in the queue file.
KnownComplete ==
    completed_names \cup {Bare(b) : b \in CompletedOnDisk(queue_file)}

\* C22: whenever a build fails, insert_missing_dependencies called for one
\* missing dependency inserts nothing if one of the candidates of the
\* dependency, or a prefix-stripped variant of one, names a package already
\* complete, by a build of this run or by its mark in the queue file.
C22_CompleteDependencySkipped ==
    (InLoop /\ HasDir(entries[idx])) =>
        \A dep \in DepChoices :
            NamedIn(dep, KnownComplete) =>
                InsertMissingDependencies(entries, <<dep>>, idx, completed_names,
                                          srcDirs).inserted = <<>>

\* Some candidate of the dependency, or a prefix-stripped variant of one,
\* names an entry after the failing one.
NamesLaterEntry(dep) ==
    \E i \in 1..Len(dep) :
        LaterMatches(entries, Range(StripKnownPrefix(dep[i])), idx) # {}

\* C23: whenever a build fails, for a missing dependency one of whose
\* candidates (or a prefix-stripped variant of one) names an entry later in
\* the queue, the call pulls such an entry forward and builds no new task
\* from a source directory; a task is synthesised only when no candidate
\* names a later entry.
C23_LaterEntryBeforeSynthesis ==
    (InLoop /\ HasDir(entries[idx])) =>
        \A dep \in DepChoices :
            LET t == CandidateLoop(entries, dep, idx, completed_names, srcDirs)
            IN /\ NamesLaterEntry(dep) =>
                    (t.found /\ ~t.synth /\ t.entry \in Range(entries))
               /\ (t.found /\ t.synth) => ~NamesLaterEntry(dep)

\* The packages built successfully so far that have a line in the queue file.
BuiltWithLine ==
    {b \in {FileName(n) : n \in Range(built_successfully)} :
        \E i \in 1..Len(queue_file) :
            ParsesAsEntry(queue_file[i]) /\ PathName(queue_file[i].name) = b}

\* C25: in queue mode, while the loop is still running (the build of the
\* next entry can start), every package whose build has succeeded and that
\* has a line in the queue file is marked complete in the queue file.
C25_MarkedBeforeNextBuild ==
    (rpc = "loop" /\ idx <= Len(entries)) =>
        BuiltWithLine \subseteq CompletedOnDisk(queue_file)

(***************************************************************************)
(* The two execution loops side by side                                    *)
(***************************************************************************)
\* Either debuild_runner runs a queue file (run_queue_mode) or the menu
\* executes its queue (manage_build_queue).
BuildLoopsInit == QueueModeInit \/ StoreInit

BuildLoopsNext ==
    \/ QueueModeNext
    \/ (rpc = "idle" /\ ExecNext)

BuildLoopsSpec == BuildLoopsInit /\ [][BuildLoopsNext]_vars

\* The packages a step adds to the records of process_queue_entries.
NewlyBuilt ==
    (Range(built_successfully') \ Range(built_successfully))
        \cup (completed_names' \ completed_names)

\* The packages a step flags in the completion map of the menu.
NewlyFlagged ==
    {p \in DOMAIN package_status' :
        package_status'[p] /\ ~StatusGet(package_status, p)}

\* The names a step marks complete in the queue file.
NewlyOnDisk == CompletedOnDisk(queue_file') \ CompletedOnDisk(queue_file)

\* C24: in both loops every step records as completed only a package whose
\* build has just returned success: process_queue_entries adds to
\* built_successfully and completed_names only the entry whose build (and
\* installation) succeeded in that step, and marks in the queue file only
\* packages of built_successfully; the loop of the menu flags in the
\* completion map only the package whose tasks all succeeded in that step,
\* and writes to the queue file only flags of the completion map.  A failed
\* build therefore adds no completion.
C24_CompletedOnlyAfterSuccess ==
    [][/\ \A n \in NewlyBuilt :
             /\ InLoop
             /\ n = entries[idx].name
             /\ hist' # <<>>
             /\ hist'[Len(hist')] = StepRec("ok", n, <<>>, <<>>)
       /\ rpc # "idle" =>
             NewlyOnDisk \subseteq {FileName(n) : n \in Range(built_successfully)}
       /\ run.pc # "none" =>
             /\ \A p \in NewlyFlagged :
                    /\ run.pc = "building"
                    /\ p = run.snapshot[run.pos]
                    /\ run'.succeeded = Append(run.succeeded, p)
             /\ \A p \in NewlyOnDisk : StatusGet(package_status, p)
             /\ \A p \in Range(run'.failed) \ Range(run.failed) :
                    p \notin NewlyFlagged /\ p \notin Range(run'.succeeded)]_vars

\* The menu's loop has finished with one package built and flagged, in the
\* map and in the queue file, and another failed and not flagged.
C24_Witness ==
    /\ run.pc = "finished"
    /\ run.kind = "debian"
    /\ \E p \in Range(run.succeeded), q \in Range(run.failed) :
         /\ StatusGet(package_status, p)
         /\ p \in CompletedOnDisk(queue_file)
         /\ ~StatusGet(package_status, q)
         /\ q \notin CompletedOnDisk(queue_file)

(***************************************************************************)
(* More properties of topo_sort                                            *)
(***************************************************************************)
\* The packages the call works on, stated without the walk.
CallClosure == IF subset_none THEN Nodes ELSE RequestedClosure

\* C26: when topo_sort fails with "Cycle detected among: ...", the packages
\* named in the error are exactly the packages of the requested closure that
\* lie on a dependency cycle.
C26_ErrorNamesCyclePackages ==
    topo.status = "cycle" =>
        topo.remaining = {n \in CallClosure : OnCycle(adj, n)}

\* Package n is ready when the k-th package of the order is emitted: it is
\* not emitted yet and all its prerequisites among the sorted packages are.
ReadyAt(order, k, n) ==
    /\ n \in Range(order)
    /\ IndexOf(order, n) >= k
    /\ \A p \in RevOf(adj, n) \cap Range(order) : IndexOf(order, p) < k

\* C27: for every order hint and every graph, in the order topo_sort returns
\* for all the packages it worked on, a package without a hint is never
\* emitted at a step at which a hinted package is ready too.
C27_HintedReadyFirst ==
    (topo.status = "ok" /\ (include_dependencies \/ subset_none)) =>
        \A k \in 1..Len(topo.order) :
            topo.order[k] \notin DOMAIN order_hint =>
                \A h \in DOMAIN order_hint : ~ReadyAt(topo.order, k, h)

(***************************************************************************)
(* topo_sort under any iteration order of its sets                         *)
(***************************************************************************)
\* Iteration orders of a Python set of names (they vary with the hash
\* seed): each is a ranking of the names; a set is iterated by rising rank.
IterationOrders ==
    {[n \in Nodes \cup {Unknown} |-> NameRank(n)],
     [n \in Nodes \cup {Unknown} |-> 9 - NameRank(n)],
     [n \in Nodes \cup {Unknown} |-> (NameRank(n) * 3) % 8],
     [n \in Nodes \cup {Unknown} |-> (NameRank(n) * 5) % 8]}

RECURSIVE SetToSeqBy(_, _)
SetToSeqBy(S, rank) ==
    IF S = {} THEN <<>>
    ELSE LET x == CHOOSE y \in S : \A z \in S : rank[y] <= rank[z]
         IN <<x>> \o SetToSeqBy(S \ {x}, rank)

\* lines 60-71 with rev iterated in the given order.
RECURSIVE ClosureWalkBy(_, _, _, _)
ClosureWalkBy(E, stack, working, rank) ==
    IF stack = <<>> THEN [err |-> FALSE, nodes |-> working]
    ELSE LET node == stack[Len(stack)]
             rest == SubSeq(stack, 1, Len(stack) - 1)
         IN IF node \in working THEN ClosureWalkBy(E, rest, working, rank)
            ELSE IF node \notin Nodes THEN [err |-> TRUE, nodes |-> working]
            ELSE ClosureWalkBy(E,
                     rest \o SetToSeqBy(RevOf(E, node) \ (working \cup {node}), rank),
                     working \cup {node}, rank)

\* lines 57-71: sub is the list given as subset.
WorkingNodesBy(E, sub, none, rank) ==
    IF none THEN [err |-> FALSE, nodes |-> Nodes]
    ELSE ClosureWalkBy(E, sub, {}, rank)

\* A queue that hands out its entries in the order they were pushed.
HeapPopOldest(heap) == 1

\* heapq.heappop: the position of the least tuple (priority, node) of the
\* heap, kept here as the list of the tuples pushed and not yet popped.
HeapPop(heap) ==
    CHOOSE i \in 1..Len(heap) : \A j \in 1..Len(heap) :
        \/ heap[i][1] < heap[j][1]
        \/ (heap[i][1] = heap[j][1] /\ NameRank(heap[i][2]) <= NameRank(heap[j][2]))

\* lines 81-82 and 92-93: the tuples pushed for the packages of seq.
HeapPushAll(heap, seq, hint, working) ==
    heap \o [i \in 1..Len(seq) |-> <<Priority(hint, working, seq[i]), seq[i]>>]

\* lines 84-93 with adj iterated in the given order.
RECURSIVE KahnLoopBy(_, _, _, _, _, _, _)
KahnLoopBy(E, working, hint, indeg, heap, sorted, rank) ==
    IF heap = <<>> THEN sorted
    ELSE LET i == HeapPop(heap)
             node == heap[i][2]
             followers == AdjOf(E, node) \cap working
             indeg2 == [n \in working |->
                          IF n \in followers THEN indeg[n] - 1 ELSE indeg[n]]
             ready == SetToSeqBy({f \in followers : indeg2[f] = 0}, rank)
         IN KahnLoopBy(E, working, hint, indeg2,
                       HeapPushAll(RemoveAt(heap, i), ready, hint, working),
                       Append(sorted, node), rank)

\* lines 72-93 with in_degree iterated in the given order.
KahnOrderBy(E, working, hint, rank) ==
    LET indeg == InDegree(E, working)
        first == SetToSeqBy({m \in working : indeg[m] = 0}, rank)
    IN KahnLoopBy(E, working, hint, indeg,
                  HeapPushAll(<<>>, first, hint, working), <<>>, rank)

\* topo_sort(sub, incl) with the list sub and the iteration order rank.
TopoSortBy(E, hint, sub, none, incl, rank) ==
    LET w == WorkingNodesBy(E, sub, none, rank)
    IN IF w.err THEN [status |-> "KeyError", order |-> <<>>, remaining |-> {}]
       ELSE Finish(w.nodes, KahnOrderBy(E, w.nodes, hint, rank),
                   Range(sub), none, incl)

\* C28: topo_sort is deterministic: for the same packages, edges, subset
\* (listed in any order) and hint, every iteration order of the sets gives
\* the same result, the one recorded for the call.
C28_SameResultAnyIterationOrder ==
    topo.status # "none" =>
        \A rank \in IterationOrders, sub \in Perms(subset) :
            TopoSortBy(adj, order_hint, sub, subset_none,
                       include_dependencies, rank) = topo

\* A call on one hinted and two un-hinted packages, two of them ready
\* together behind a common prerequisite.
C28_Witness ==
    /\ topo.status = "ok"
    /\ Len(topo.order) >= 3
    /\ order_hint # <<>>
    /\ \E n \in Nodes : Cardinality(AdjOf(adj, n)) = 2
    /\ \E x, y \in Range(topo.order) : x # y /\ ReadyAt(topo.order, 2, x)
                                              /\ ReadyAt(topo.order, 2, y)

\* The step at which package n becomes ready (is pushed on the heap): the
\* first step, or the one after its last prerequisite is emitted.
ReadySince(order, n) ==
    LET before == {0} \cup {IndexOf(order, p) : p \in RevOf(adj, n) \cap Range(order)}
    IN 1 + (CHOOSE m \in before : \A k \in before : k <= m)

\* C29: un-hinted packages that are ready at the same time are emitted in
\* the order in which they became ready: an un-hinted package that became
\* ready at an earlier step than another un-hinted one is emitted before it.
C29_UnhintedInDiscoveryOrder ==
    (topo.status = "ok" /\ (include_dependencies \/ subset_none)) =>
        \A x, y \in Range(topo.order) \ DOMAIN order_hint :
            ReadySince(topo.order, x) < ReadySince(topo.order, y)
                => Before(topo.order, x, y)

\* The packages of s that were requested, in the order of s.
RequestedOf(s) ==
    LET Requested(n) == n \in subset
    IN SelectSeq(s, Requested)

\* C30: topo_sort(subset, include_dependencies=False) ends as
\* topo_sort(subset, include_dependencies=True) does, and returns that
\* call's list without the packages outside the subset: every requested
\* package exactly once, in the same relative order.
C30_WithoutDependenciesIsFiltered ==
    (topo.status # "none" /\ ~subset_none /\ ~include_dependencies) =>
        LET full == TopoSort(adj, order_hint, subset, FALSE, TRUE)
        IN /\ topo.status = full.status
           /\ topo.order = RequestedOf(full.order)
           /\ topo.status = "ok" =>
                /\ Range(topo.order) = subset
                /\ NoDup(topo.order)
                /\ \A x, y \in subset :
                     x # y => (Before(topo.order, x, y) <=> Before(full.order, x, y))

\* A call without dependencies on two packages whose closure holds a third
\* one, which the call with dependencies returns between them.
C30_Witness ==
    /\ topo.status = "ok"
    /\ ~subset_none
    /\ ~include_dependencies
    /\ Len(topo.order) = 2
    /\ LET full == TopoSort(adj, order_hint, subset, FALSE, TRUE).order
       IN /\ Len(full) = 3
          /\ full[2] \notin subset

(***************************************************************************)
(* Unresolved names and the names taken from a control file                *)
(***************************************************************************)
\* sort_packages_with_dependencies lines 124-126 and compute_series_toposort
\* lines 146-148: the set returned beside the order.
ReturnedUnresolved(unres) == UNION {unres[p] : p \in DOMAIN unres}

\* C31: the unresolved set returned with the order of the targets and their
\* prerequisites is the union of the unresolved names of the packages of
\* that order; a name referenced only by other packages is not in it.
C31_UnresolvedOfInvolvedOnly ==
    (gpc = "sorted" /\ include_dependencies /\ topo.status = "ok") =>
        ReturnedUnresolved(unresolved)
            = UNION {unresolved[p] : p \in Range(topo.order)}

\* C32: after build_from_control_dirs, for every package p and every name d
\* extracted from its dependency fields, d other than p: a known d gives the
\* edge d before p, an unknown d is in the unresolved set of p; and every
\* edge and every unresolved entry comes from an extracted name.
C32_ExtractedNamesAllRecorded ==
    gpc \in {"built", "sorted"} =>
        /\ \A p \in DOMAIN control_files :
             \A d \in DepsOf(control_files, p) \ {p} :
                 IF d \in DOMAIN control_files
                 THEN <<d, p>> \in adj /\ d \notin unresolved[p]
                 ELSE d \in unresolved[p]
        /\ \A e \in adj :
             /\ e[1] # e[2]
             /\ e[1] \in DOMAIN control_files
             /\ e[1] \in DepsOf(control_files, e[2])
        /\ \A p \in DOMAIN control_files :
             unresolved[p] \subseteq DepsOf(control_files, p) \ DOMAIN control_files

\* A built graph with an edge, an unresolved name, and a package that names
\* itself.
C32_Witness ==
    /\ gpc = "built"
    /\ adj # {}
    /\ \E p \in DOMAIN control_files : unresolved[p] # {}
    /\ \E p \in DOMAIN control_files : p \in DepsOf(control_files, p)

\* A field value that is one entry "prefix:name".
IsVendorEntry(value) ==
    /\ Len(value) = 3
    /\ value[2] = ":"
    /\ value[1] \notin Marks
    /\ value[3] \notin Marks \cup {"any"}

\* C33: for a dependency written with a vendor prefix ("ven:b") the name
\* extracted is the package name after the colon, so that the built graph
\* has the edge from that package to the dependent.
C33_VendorPrefixRemoved ==
    gpc \in {"built", "sorted"} =>
        \A p \in DOMAIN control_files :
            \A i \in 1..Len(control_files[p]) :
                \A f \in DependsFields \cap DOMAIN control_files[p][i] :
                    LET value == control_files[p][i][f]
                    IN IsVendorEntry(value) =>
                         /\ ParseDepends(value) = <<value[3]>>
                         /\ value[3] # p => <<value[3], p>> \in adj

(***************************************************************************)
(* load_queue_from_file on files found on disk                             *)
(***************************************************************************)
\* A line whose bytes are not UTF-8: iterating the handle (line 369) raises
\* UnicodeDecodeError there.
UndecodableLine ==
    [form |-> "undecodable", name |-> EmptyStr, completed |-> FALSE,
     kind |-> "", path |-> EmptyStr, extra_args |-> <<>>]

ThirdDir == "third"

\* Lines found in a queue file: bare names, a line that begins with "{" but
\* is no JSON (read as a bare name), inline records with and without a
\* path, and a line that cannot be decoded.
FoundLines ==
    {BareLine(PlainStr("a"), FALSE),
     BareLine(PlainStr("b"), TRUE),
     BareLine(PlainStr("{bad"), FALSE),
     InlineLine(PlainStr("a"), FALSE, "debian", Str(OtherDir, "a"), <<>>),
     InlineLine(PlainStr("a"), TRUE, "rpm", EmptyStr, <<"-j4">>),
     UndecodableLine}

\* Metadata found: nothing usable (a missing, unreadable, malformed or
\* non-map file gives meta = {} at lines 411-417), or a map with an entry
\* for a.
FoundMeta ==
    {[key |-> PlainStr("a"), val |-> v] :
        v \in {MetaInfo(Str(ThirdDir, "a"), <<>>),
               MetaInfo(EmptyStr, <<[key |-> "rpm", val |-> <<>>]>>)}}

\* lines 368-369: open() and the iteration are outside any try.
QueueFileRaises(lines) ==
    \E i \in 1..Len(lines) : lines[i].form = "undecodable"

LoadInit ==
    /\ MenuVarsInit
    /\ TopoVarsInit
    /\ RunnerVarsInit
    /\ LockVarsInit
    /\ build_queue = <<>>
    /\ queue_packages = <<>>
    /\ package_status = <<>>
    /\ queue_file \in ListsUpTo(FoundLines, MaxLines)
    /\ queue_meta_file \in {m \in ListsUpTo(FoundMeta, MaxMeta) : NoDup(DictKeys(m))}
    /\ last_op = NoOp

\* MenuState.load_queue_from_file: the exception leaves the fields as they
\* are (they are assigned at lines 487-489).
LoadFromDisk ==
    /\ last_op.op = "none"
    /\ IF QueueFileRaises(queue_file)
       THEN /\ last_op' = Op("load_queue_from_file raised")
            /\ UNCHANGED <<build_queue, queue_packages, package_status,
                           queue_file, queue_meta_file>>
       ELSE /\ Becomes(LoadQueueFromFile(Current))
            /\ last_op' = Op("load_queue_from_file")
    /\ UNCHANGED outsideStore

LoadNext == LoadFromDisk

LoadSpec == LoadInit /\ [][LoadNext]_vars

\* The inline records of the queue file that give package pkg a path.
InlinePaths(lines, pkg) ==
    {lines[i].path : i \in {k \in 1..Len(lines) :
                              /\ lines[k].form = "inline"
                              /\ lines[k].name = PlainStr(pkg)
                              /\ lines[k].path # EmptyStr}}

\* C34: when the metadata map and an inline line of the queue file both
\* give a path for a package, every loaded task of the package has the path
\* of the metadata map.
C34_MetadataPathWins ==
    last_op.op = "load_queue_from_file" =>
        \A pkg \in Range(queue_packages) :
            LET info == DictGet(NormalizeMeta(queue_meta_file, <<>>),
                                PlainStr(pkg), EmptyInfo)
            IN (info.path # EmptyStr /\ InlinePaths(queue_file, pkg) # {}) =>
                   \A i \in 1..Len(build_queue) :
                       build_queue[i].display_name = pkg =>
                           build_queue[i].path = StrToPath(info.path)

\* C35: load_queue_from_file never raises; a queue file that cannot be read
\* gives an empty queue; and without usable metadata every package listed
\* by plain lines loads with one default debian task.
C35_LoadNeverRaises ==
    last_op.op # "none" =>
        /\ last_op.op = "load_queue_from_file"
        /\ QueueFileRaises(queue_file) =>
             (build_queue = <<>> /\ queue_packages = <<>>)
        /\ (queue_meta_file = <<>>
            /\ \A i \in 1..Len(queue_file) : queue_file[i].form = "bare") =>
               \A pkg \in Range(queue_packages) :
                   \E i \in 1..Len(build_queue) :
                       /\ build_queue[i] = BuildTask(pkg, MkPath(CodeDir, pkg),
                                                     "debian", <<>>)
                       /\ \A j \in 1..Len(build_queue) :
                            build_queue[j].display_name = pkg => j = i

(***************************************************************************)
(* Further claims about the queue store                                    *)
(***************************************************************************)
\* The packages that have at least one task.
TaskPackages(tasks) == {tasks[i].display_name : i \in 1..Len(tasks)}

\* C36: after load_queue_from_file and after every mutating queue operation
\* the packages of the ordered list, the keys of the completion map and the
\* packages with at least one task are the same set.
C36_ListMapAndTasksAgree ==
    /\ Range(queue_packages) = DOMAIN package_status
    /\ Range(queue_packages) = TaskPackages(build_queue)

\* A package was removed from a queue of two packages, one of them with
\* tasks of two kinds.
C36_Witness ==
    /\ last_op.op = "remove"
    /\ Len(queue_packages) = 1
    /\ Len(build_queue) = 2
    /\ DOMAIN package_status = Range(queue_packages)

\* The step is add_tasks([task]) for a task whose package and kind are
\* queued.
AddsQueuedTask ==
    /\ last_op'.op = "add_tasks"
    /\ Len(last_op'.tasks) = 1
    /\ ExistingTask(build_queue, last_op'.tasks[1]) # {}

\* C37: add_tasks on a task whose (package, kind) is already queued puts the
\* path and the arguments of the new task in the place of the queued one:
\* the other tasks, the number of tasks and the ordered package list stay,
\* nothing is counted as newly added, and the completion flag of the
\* package is cleared when reset_completed is true and kept when it is
\* false; the flags of the other packages stay.
C37_QueuedTaskReplacedInPlace ==
    [][AddsQueuedTask =>
         LET task == last_op'.tasks[1]
             pkg == task.path.name
             i == Min(ExistingTask(build_queue, task))
         IN /\ Len(build_queue') = Len(build_queue)
            /\ build_queue'[i] = BuildTask(pkg, task.path, task.kind, task.extra_args)
            /\ \A j \in 1..Len(build_queue) : j # i => build_queue'[j] = build_queue[j]
            /\ queue_packages' = queue_packages
            /\ last_op'.added = 0
            /\ DOMAIN package_status' = DOMAIN package_status
            /\ package_status'[pkg] =
                 (IF last_op'.reset THEN FALSE ELSE package_status[pkg])
            /\ \A q \in DOMAIN package_status \ {pkg} :
                 package_status'[q] = package_status[q]]_vars

\* A completed package's debian task was added again from another directory
\* with reset_completed false: the task has the new path and arguments and
\* the package is still complete.
C37_Witness ==
    /\ last_op.op = "add_tasks"
    /\ last_op.tasks = <<BuildTask("a", MkPath(OtherDir, "a"), "debian", <<"-j4">>)>>
    /\ ~last_op.reset
    /\ last_op.added = 0
    /\ StatusGet(package_status, "a")
    /\ Len(queue_packages) = 2
    /\ \E i \in 1..Len(build_queue) :
         build_queue[i] = BuildTask("a", MkPath(OtherDir, "a"), "debian", <<"-j4">>)

(***************************************************************************)
(* Claims about optimize_debian_build_queue                                *)
(***************************************************************************)
\* The dependencies the control files can state between a and b (first the
\* prerequisite), a cycle included.
ControlDeps == SUBSET {<<"a", "b">>, <<"b", "a">>}

\* The queue optimize works on: loaded, reviewed and loaded again (lines
\* 828-831).
Reviewed(st, review) ==
    LoadQueueFromFile(
        ReviewCompletedPackages(LoadQueueFromFile(st), "debian",
                                review.auto_mark, review.prebuilt,
                                review.unselect))

\* pkg is a pending debian package of the queue st.
PendingDebian(st, pkg) ==
    /\ pkg \in Range(st.queue_packages)
    /\ ~StatusGet(st.package_status, pkg)
    /\ HasTask(st, pkg, "debian")

\* Every occurrence of q in the list of names is before every occurrence
\* of p, and q occurs.
AllBefore(names, q, p) ==
    /\ q \in Range(names)
    /\ \A i, j \in 1..Len(names) : (names[i] = q /\ names[j] = p) => i < j

\* The queue st is in dependency order for the dependencies deps between
\* packages with a source directory.
InDependencyOrder(st, deps) ==
    \A e \in TransClosure(deps) :
        (/\ e[1] # e[2]
         /\ e[1] \in StoreNames
         /\ PendingDebian(st, e[2])
         /\ ~StatusGet(st.package_status, e[1]))
        => /\ HasTask(st, e[1], "debian")
           /\ AllBefore(st.queue_packages, e[1], e[2])
           /\ AllBefore([i \in 1..Len(st.queue_file) |->
                            PathName(st.queue_file[i].name)], e[1], e[2])

\* C38: whenever optimize_debian_build_queue succeeds, whatever the answers
\* to the review and the dependencies of the control files, in the saved
\* queue every pending debian package comes after all of its prerequisites
\* that are not completed and have a source directory, and each of these
\* has a debian task.
C38_OptimizedOrderRespectsDependencies ==
    \A review \in ReviewChoices, deps \in ControlDeps :
        LET r == OptimizeDebianBuildQueue(Current, review.auto_mark,
                                          review.prebuilt, review.unselect,
                                          StoreNames, deps)
        IN r.ok => InDependencyOrder(r.st, deps)

\* After an optimization the pending package a is listed behind b, which
\* got its debian task from the source directory found under code_dir.
C38_Witness ==
    /\ last_op.op = "optimize"
    /\ queue_packages = <<"b", "a">>
    /\ ~StatusGet(package_status, "a")
    /\ ~StatusGet(package_status, "b")
    /\ HasTask(Current, "a", "debian")
    /\ \E i \in 1..Len(build_queue) :
         build_queue[i] = BuildTask("b", MkPath(CodeDir, "b"), "debian", <<>>)
    /\ queue_file = <<BareLine(PlainStr("b"), FALSE), BareLine(PlainStr("a"), FALSE)>>

\* No answer given to the review changes anything.
ReviewDeclined == [auto_mark |-> FALSE, prebuilt |-> {}, unselect |-> {}]

\* The dependency analysis of optimize fails (lines 861-870).
AnalysisFails(st, deps) ==
    /\ \E i \in 1..Len(st.build_queue) : st.build_queue[i].kind = "debian"
    /\ PendingPackages(st) # <<>>
    /\ ComputeSeriesToposort(KnownEdges(deps, PackageDirs(st, StoreNames)),
                             Range(PendingPackages(st)),
                             OrderHint(st.queue_packages)).status # "ok"

\* C39: when the dependency analysis fails (the review left as it is), the
\* function reports failure, and the package order, the flags and the tasks
\* in memory and the two files are those from before the call.
C39_FailedAnalysisChangesNothing ==
    \A deps \in ControlDeps :
        AnalysisFails(Reviewed(Current, ReviewDeclined), deps) =>
            LET r == OptimizeDebianBuildQueue(Current, FALSE, {}, {},
                                              StoreNames, deps)
            IN /\ ~r.ok
               /\ QueueView(r.st) = QueueView(Current)
               /\ Disk(r.st) = Disk(Current)

\* C40: the ordered package list never holds a name twice, in memory after
\* any sequence of queue operations, nor in the queue file once one of them
\* has written it.
C40_NoPackageListedTwice ==
    /\ NoDup(queue_packages)
    /\ (\/ last_op.op \in {"save_queue", "remove", "build"}
        \/ (last_op.op = "add_tasks" /\ last_op.tasks # <<>>))
       => NoDup([i \in 1..Len(queue_file) |-> PathName(queue_file[i].name)])

====
